---- MODULE Spec2Model ----
(***************************************************************************)
(* Model of the benchmark Runner of llm-latency-benchmark                   *)
(* (internal/benchmark/runner.go), of the provider stream it consumes       *)
(* (providers/openai.go StreamChat) and of the prompt / model configuration *)
(* it reads (internal/config).                                              *)
(*                                                                          *)
(* Goroutines: the goroutine that calls Run ("main", thread 0), the N       *)
(* worker goroutines (threads 1..N), the queue producer goroutine of        *)
(* runConcurrent, one provider goroutine per call in flight, and the        *)
(* environment (parent-context cancellation, per-call deadline timers).     *)
(***************************************************************************)
EXTENDS Integers, Sequences, FiniteSets, TLC

\* ---------------------------------------------------------------- bounds
MaxRuns == 2            \* largest -runs flag explored
MaxPromptFiles == 2     \* most prompt files in the prompts directory
MaxDeltas == 1          \* most non-empty deltas one stream carries
MaxItems == 2           \* most work items of one run
MaxResults == 3         \* longest results slice given to CalculateSummary
MaxTime == 3            \* last instant of the clock of a single call
MaxEvents == 3          \* most events one call receives
MaxGets == 3            \* most GetProvider calls on one factory
MaxRegisters == 2       \* most RegisterConfig calls on one factory
MaxClears == 1          \* most ClearProviders calls on one factory
MaxAdds == 2            \* most addResult calls on one results slice
MaxReads == 2           \* most GetResults and GetSummary calls
MaxWrites == 2          \* most writes a caller makes to a returned slice
MaxAttempt == 10        \* largest attempt number given to GetRetryDelay
MaxTextLen == 9         \* longest text given to GetTokenCount
MaxRecords == 2         \* most RecordFirstToken calls on one record

\* ------------------------------------------------------- program constants
\* runner.go:130 "Assume ~5 models per provider"
AssumedModelsPerProvider == 5

\* ----------------------------------------------------------- configuration
\* Providers handed to NewRunner.  "openai" is known to ListModels, "custom"
\* is a provider name that ListModels does not know (its default branch).
ProviderNames == {"openai", "custom"}
ModelNames == {"gpt-4o", "gpt-4o-mini"}
\* The values of the -concurrent flag that are explored: sequential mode
\* and a pool of two workers.
PoolSizes == {1, 2}
\* The model tables of "openai" in the models file that are explored.
ModelSets == {{}, {"gpt-4o"}, ModelNames}

VARIABLES
    cfg,            \* config.Config + providers map + prompts directory
    mainPc,         \* position of the goroutine executing Run
    runErr,         \* what Run returned ("none" while running)
    loop,           \* cursor of the prompt/provider/model/run loop nest
    results,        \* r.results
    cancelled,      \* the context passed to Run has been cancelled
    runCancelled,   \* Run's deferred cancel() of runCtx has run
    workChan,       \* buffered items of the work queue
    chanCap,        \* its capacity (-1: not made)
    chanClosed,     \* the work queue is closed
    closeCount,     \* number of close(workChan) statements executed
    prodPc,         \* position of the producer goroutine
    panicMsg,       \* "none" or the runtime panic that crashed the process
    tPc,            \* per thread: position in worker / runSingleBenchmark
    tItem,          \* per thread: the work item being processed
    stream,         \* per thread: state of the call's provider goroutine
    deltas,         \* per thread: content events sent by the provider
    expired,        \* per thread: the per-call deadline has fired
    metrics,        \* per thread: the call's Metrics record
    ghost,          \* per thread: history flags of the call in flight
    invoked,        \* history: StreamChat invocations per work item
    startOrder,     \* history: items in the order runSequential started them
    lateCalls,      \* history: StreamChat invocations after the cancellation
    cancelMid       \* history: a call was in flight when the run was cancelled

\* State of the three components modelled next to the Runner: one call of
\* runSingleBenchmark with its clock, the input and output of
\* CalculateSummary, and the ProviderFactory.
VARIABLES
    sumInput,       \* the results slice handed to CalculateSummary
    summary,        \* the Summary it returned
    summarized      \* CalculateSummary has returned

summaryVars == <<sumInput, summary, summarized>>

VARIABLES
    now,                \* the monotonic clock read by time.Now()
    cPc,                \* position of the call: "idle", "streaming", "done"
    cMetrics,           \* the Metrics record of the call, with its timing
    firstTokenReceived, \* runSingleBenchmark's local of that name
    fullResponse,       \* length of runSingleBenchmark's fullResponse
    cEvents,            \* events received from responseChan so far
    cExpired,           \* the per-call context is done
    cResult,            \* the BenchmarkResult the call returned
    cEnd,               \* history: the branch that ended the call
    cPricing,           \* what the models file holds for (provider, model)
    cPromptLen,         \* length of SystemPrompt + UserPrompt
    cCompleteSeen,      \* history: an event with IsComplete was handled
    cCalls,             \* history: Complete, SetError, SetCost and
                        \* ToBenchmarkResult calls on the record, in order
    cRecords            \* history: RecordFirstToken calls on the record

callVars == <<now, cPc, cMetrics, firstTokenReceived, fullResponse, cEvents,
              cExpired, cResult, cEnd, cPricing, cPromptLen, cCompleteSeen,
              cCalls, cRecords>>

VARIABLES
    fConfigs,       \* ProviderFactory.configs: what is registered per name
    fProviders,     \* ProviderFactory.providers: cached instance per name
    fMutex,         \* holder of the write lock of ProviderFactory.mutex
    gPc,            \* position of each caller inside GetProvider
    gName,          \* the providerName argument of each caller
    gRet,           \* what GetProvider last returned to each caller
    genaiFails,     \* genai.NewClient fails in this process environment
    nextInst,       \* identity the next constructed instance gets
    served,         \* history: instances returned per name since the clear
    ctorRuns,       \* history: constructor calls per name since the clear
    ctorOk,         \* history: of these, the ones that built an instance
    preClear,       \* history: the cache as the last ClearProviders found it
    clearedUpTo,    \* history: newest instance built before the last clear
    gets,           \* history: GetProvider calls started
    registers,      \* history: RegisterConfig calls
    clears          \* history: ClearProviders calls

factoryVars == <<fConfigs, fProviders, fMutex, gPc, gName, gRet, genaiFails,
                 nextInst, served, ctorRuns, ctorOk, preClear, clearedUpTo,
                 gets, registers, clears>>

VARIABLES
    heap,           \* the backing arrays allocated so far, by identity
    stored,         \* Runner.results: a slice header (array, length)
    held,           \* the slice GetResults last returned to its caller
    hasHeld,        \* GetResults has returned a slice
    addLog,         \* history: the results handed to addResult, in order
    reads,          \* history: GetResults and GetSummary calls
    writes          \* history: writes of the caller to its slice

storeVars == <<heap, stored, held, hasHeld, addLog, reads, writes>>

VARIABLES
    pOp,            \* the function called: "validate", "delay", "count", "cost"
    pAdapter,       \* the provider adapter it is called on
    pIn,            \* its arguments
    pOut,           \* what it returned
    pDone           \* it has returned

pureVars == <<pOp, pAdapter, pIn, pOut, pDone>>

VARIABLES
    goPc,           \* position of the provider goroutine of one call
    chunks,         \* chunks the upstream stream has yielded to it
    received,       \* events the call's select took from responseChan
    callCtx,        \* the per-call context: "live", "deadline", "cancelled"
    selPc,          \* runSingleBenchmark: "idle", "select", "returned"
    selEnd          \* the branch of the select that made it return

chanVars == <<goPc, chunks, received, callCtx, selPc, selEnd>>

auxVars ==
    <<summaryVars, callVars, factoryVars, storeVars, pureVars, chanVars>>

vars == <<cfg, mainPc, runErr, loop, results, cancelled, runCancelled,
          workChan, chanCap, chanClosed, closeCount, prodPc, panicMsg,
          tPc, tItem, stream, deltas, expired, metrics, ghost, invoked,
          startOrder, lateCalls, cancelMid, auxVars>>

\* ------------------------------------------------------------------ helpers
NoItem == [prompt |-> 0, provider |-> "none", model |-> "none", run |-> 0]

\* config.LoadPrompts: an error when the walk fails or no valid prompt file
\* was found, else the prompt files (numbered 1..n here).
LoadPrompts(dir) ==
    IF dir.broken \/ dir.files = 0
    THEN [err |-> TRUE, prompts |-> {}]
    ELSE [err |-> FALSE, prompts |-> 1..dir.files]

\* len(promptFiles) in Run: nothing is loaded when LoadPrompts fails.
NumPrompts(c) == Cardinality(LoadPrompts(c.dir).prompts)

\* ModelsConfig.ListModels: unknown provider names are an error.
ListModels_NoDefault(c, provider) == [err |-> FALSE, models |-> c.models]
ListModels(c, provider) ==
    IF provider = "openai"
    THEN [err |-> FALSE, models |-> c.models]
    ELSE [err |-> TRUE, models |-> {}]

\* The cross product of work items of a configuration.
WorkItems(c) ==
    IF LoadPrompts(c.dir).err THEN {}
    ELSE { [prompt |-> p, provider |-> pr, model |-> m, run |-> r] :
             p \in LoadPrompts(c.dir).prompts,
             pr \in {q \in c.providers : ~ListModels(c, q).err},
             m \in c.models, r \in 1..c.Runs }

\* Worker ids started by runConcurrent: for i := 0; i < Concurrent; i++
WorkerIds(c) == 1..c.Concurrent

\* Thread 0 is the goroutine that executes Run; the others are workers.
Threads == 0..2

\* The run context is done once the parent was cancelled or Run's deferred
\* cancel has executed.
RunCtxDone == cancelled \/ runCancelled

\* The process is alive until a goroutine panics.
Alive == panicMsg = "none"

NewMetrics == [Response |-> 0, Success |-> FALSE, Error |-> "nil"]

NoGhost ==
    [cancelledInFlight |-> FALSE, expiredOpen |-> FALSE, takenLate |-> FALSE]

LoopStart == [p |-> 0, provLeft |-> {}, prov |-> "none",
              modelLeft |-> {}, model |-> "none", run |-> 0]

Configs ==
    { c \in [Concurrent : PoolSizes, Runs : 1..MaxRuns,
             dir : [files : 0..MaxPromptFiles, broken : BOOLEAN],
             providers : SUBSET ProviderNames,
             models : ModelSets] :
        /\ Cardinality(WorkItems(c)) <= MaxItems
        /\ c.dir.broken => c.dir.files <= 1 }

RunnerInit ==
    /\ cfg \in Configs
    /\ mainPc = "idle"
    /\ runErr = "none"
    /\ loop = LoopStart
    /\ results = <<>>
    /\ cancelled = FALSE
    /\ runCancelled = FALSE
    /\ workChan = <<>>
    /\ chanCap = -1
    /\ chanClosed = FALSE
    /\ closeCount = 0
    /\ prodPc = "off"
    /\ panicMsg = "none"
    /\ tPc = [t \in Threads |-> "off"]
    /\ tItem = [t \in Threads |-> NoItem]
    /\ stream = [t \in Threads |-> "none"]
    /\ deltas = [t \in Threads |-> 0]
    /\ expired = [t \in Threads |-> FALSE]
    /\ metrics = [t \in Threads |-> NewMetrics]
    /\ ghost = [t \in Threads |-> NoGhost]
    /\ invoked = [i \in WorkItems(cfg) |-> 0]
    /\ startOrder = <<>>
    /\ lateCalls = 0
    /\ cancelMid = FALSE

\* A float64 that is the quotient of two integers is kept as that quotient.
Frac(n, d) == [num |-> n, den |-> d]
FloatZero == Frac(0, 1)

\* Arithmetic on quotients in lowest terms (non-negative numerators).
RECURSIVE Gcd(_, _)
Gcd(a, b) == IF b = 0 THEN a ELSE Gcd(b, a % b)
Ratio(n, d) == Frac(n \div Gcd(n, d), d \div Gcd(n, d))
FracMul(x, y) ==
    LET g1 == Gcd(x.num, y.den)
        g2 == Gcd(y.num, x.den)
    IN Ratio((x.num \div g1) * (y.num \div g2),
             (x.den \div g2) * (y.den \div g1))
FracAdd(x, y) ==
    LET g == Gcd(x.den, y.den)
    IN Ratio(x.num * (y.den \div g) + y.num * (x.den \div g),
             (x.den \div g) * y.den)

\* Summary{}: the zero value of the Summary struct.
EmptySummary ==
    [TotalRuns |-> 0, SuccessfulRuns |-> 0, FailedRuns |-> 0,
     AvgTTFT |-> 0, AvgTotalTime |-> 0, MinTTFT |-> 0, MaxTTFT |-> 0,
     P95TTFT |-> 0, P99TTFT |-> 0,
     AvgTokensPerSecond |-> FloatZero,
     TotalInputTokens |-> 0, TotalOutputTokens |-> 0,
     TotalCost |-> 0, AvgCostPerRun |-> FloatZero, ErrorRate |-> FloatZero]

\* CalculateSummary has not been called.
SummaryIdle ==
    /\ sumInput = <<>>
    /\ summary = EmptySummary
    /\ summarized = FALSE

\* &Metrics{}: the zero value of the Metrics struct with its timing fields;
\* the zero time.Time is 0 and the clock starts at 1.
ZeroMetrics ==
    [StartTime |-> 0, FirstTokenTime |-> 0, EndTime |-> 0,
     InputTokens |-> 0, OutputTokens |-> 0, TotalTokens |-> 0,
     TTFT |-> 0, TotalTime |-> 0, TokensPerSecond |-> FloatZero,
     Cost |-> FloatZero, Response |-> 0, Error |-> "nil", Success |-> FALSE]

\* The pricing of the pair: the provider is one of the names the models file
\* knows and the model has an entry with a price, or not.
PricingCases == [providerKnown : BOOLEAN, modelListed : BOOLEAN]
PromptLens == {0, 8}

\* runSingleBenchmark has not been called.
CallIdle ==
    /\ now = 1
    /\ cPc = "idle"
    /\ cMetrics = ZeroMetrics
    /\ firstTokenReceived = FALSE
    /\ fullResponse = 0
    /\ cEvents = 0
    /\ cExpired = FALSE
    /\ cResult = ZeroMetrics
    /\ cEnd = "none"
    /\ cPricing = [providerKnown |-> TRUE, modelListed |-> TRUE]
    /\ cPromptLen = 0
    /\ cCompleteSeen = FALSE
    /\ cCalls = <<>>
    /\ cRecords = 0

\* The names GetProvider is called with: three of the names createProvider
\* switches on, and one it does not know.
FactoryNames == {"openai", "openai_responses", "gemini", "non-existent"}

\* The names RegisterConfig is called with.
ConfigNames == {"openai", "gemini"}

\* What configs[name] holds: nothing, a value of another type than the
\* name's config struct, a pointer to that struct with an empty APIKey, or
\* one with an APIKey.
NoConfig == "none"
ConfigValues == {"wrongType", "noKey", "valid"}

\* The goroutines calling GetProvider.
Callers == {1, 2}

\* Instances are numbered from 1 in the order they are built; 0 stands for
\* no instance (a nil Provider, a name absent from the map).
\* The cache NewProviderFactory makes.
EmptyCache == [n \in FactoryNames |-> 0]
NoReturn == [provider |-> 0, err |-> "none", via |-> "none",
             reRegistered |-> FALSE]

\* NewProviderFactory(): both maps empty, the mutex free, nobody calling.
NewProviderFactory ==
    /\ fConfigs = [n \in ConfigNames |-> NoConfig]
    /\ fProviders = EmptyCache
    /\ fMutex = 0
    /\ gPc = [c \in Callers |-> "idle"]
    /\ gName = [c \in Callers |-> "openai"]
    /\ gRet = [c \in Callers |-> NoReturn]
    /\ nextInst = 1
    /\ served = [n \in FactoryNames |-> {}]
    /\ ctorRuns = [n \in FactoryNames |-> 0]
    /\ ctorOk = [n \in FactoryNames |-> 0]
    /\ preClear = EmptyCache
    /\ clearedUpTo = 0
    /\ gets = 0
    /\ registers = 0
    /\ clears = 0

\* The factory is constructed and never used.
FactoryIdle == NewProviderFactory /\ genaiFails = FALSE

\* A nil slice: no backing array (array 0), length 0.
NilSlice == [arr |-> 0, len |-> 0]

\* results: make([]BenchmarkResult, 0), and no GetResults call yet.
StoreIdle ==
    /\ heap = <<>>
    /\ stored = NilSlice
    /\ held = NilSlice
    /\ hasHeld = FALSE
    /\ addLog = <<>>
    /\ reads = 0
    /\ writes = 0

\* The adapters that define ValidateRequest, GetRetryDelay and GetTokenCount.
Adapters == {"openai", "groq", "anthropic", "azure_openai", "gemini"}

\* A ChatRequest: Model and UserPrompt by their length, MaxTokens, and
\* Temperature and TopP in tenths (15 is 1.5).
ZeroRequest ==
    [Model |-> 0, UserPrompt |-> 0, MaxTokens |-> 0, Temperature |-> 0,
     TopP |-> 0]

\* The adapters that merge req.ExtraParams into a payload map:
\* OpenAIProvider.streamChatDirect and OpenAIResponsesProvider.StreamChat.
MergingAdapters == {"openai", "openai_responses"}

\* Payload keys: the three the spec reserves, the Responses API's "input",
\* one with a computed default and one without.
PayloadKeys ==
    {"model", "stream", "messages", "input", "temperature", "seed"}

\* Arguments and return values of the functions called alone.
NoArgs ==
    [req |-> ZeroRequest, attempt |-> 0, err |-> "nil", textLen |-> 0,
     inputTokens |-> 0, outputTokens |-> 0,
     price |-> [Input |-> FloatZero, Output |-> FloatZero],
     extraParams |-> {}, sampling |-> FALSE]
NoOutput ==
    [err |-> "none", field |-> "none", delay |-> 0, count |-> 0,
     cost |-> FloatZero, payload |-> <<>>]

\* No function is called alone.
PureIdle ==
    /\ pOp = "none"
    /\ pAdapter = "openai"
    /\ pIn = NoArgs
    /\ pOut = NoOutput
    /\ pDone = FALSE

\* No provider goroutine runs alone.
StreamIdle ==
    /\ goPc = "none"
    /\ chunks = 0
    /\ received = 0
    /\ callCtx = "live"
    /\ selPc = "idle"
    /\ selEnd = "none"

Init ==
    /\ RunnerInit /\ SummaryIdle /\ CallIdle /\ FactoryIdle /\ StoreIdle
    /\ PureIdle /\ StreamIdle

\* The Runner is constructed and Run is never called.
IdleConfig ==
    [Concurrent |-> 1, Runs |-> 1, dir |-> [files |-> 0, broken |-> FALSE],
     providers |-> {}, models |-> {}]
RunnerIdle == RunnerInit /\ cfg = IdleConfig

\* ------------------------------------------------- Metrics (metrics.go)
\* Metrics.AddResponseContent: appends one delta to the response.
AddResponseContent(m) == [m EXCEPT !.Response = @ + 1]

\* Metrics.Complete: marks the call successful.
Complete(m) == [m EXCEPT !.Success = TRUE]

\* Metrics.SetError: records the error and marks the call failed.
SetError(m, e) == [m EXCEPT !.Error = e, !.Success = FALSE]

\* Metrics.ToBenchmarkResult: the result of the call for a work item.
ToBenchmarkResult(m, item) ==
    [item |-> item, Success |-> m.Success, Error |-> m.Error]

\* Runner.addResult: append under the results lock.
addResult_Prepend(rs, r) == <<r>> \o rs
addResult(rs, r) == Append(rs, r)

\* ------------------------------------------------------------ Runner.Run
\* Run, lines 33-53: load the prompts, then pick the mode.
RunIgnoresLoadError(c) == FALSE
RunLoadFailed(c) == LoadPrompts(c.dir).err

Run ==
    /\ Alive /\ mainPc = "idle"
    /\ IF RunLoadFailed(cfg)
       THEN /\ runErr' = "load_error"
            /\ mainPc' = "returned"
       ELSE /\ runErr' = runErr
            /\ mainPc' = IF cfg.Concurrent <= 1 THEN "seq_prompt"
                                                ELSE "conc_start"
    /\ UNCHANGED <<cfg, loop, results, cancelled, runCancelled, workChan,
                   chanCap, chanClosed, closeCount, prodPc, panicMsg, tPc,
                   tItem, stream, deltas, expired, metrics, ghost, invoked,
                   startOrder, lateCalls, cancelMid>>
    /\ UNCHANGED auxVars

\* Run's "defer cancel()" of runCtx, executed when runSequential or
\* runConcurrent has returned.
RunDeferredCancel ==
    /\ Alive /\ mainPc = "run_defer"
    /\ runCancelled' = TRUE
    /\ mainPc' = "returned"
    /\ UNCHANGED <<cfg, runErr, loop, results, cancelled, workChan, chanCap,
                   chanClosed, closeCount, prodPc, panicMsg, tPc, tItem,
                   stream, deltas, expired, metrics, ghost, invoked,
                   startOrder, lateCalls, cancelMid>>
    /\ UNCHANGED auxVars

\* The parent context is cancelled (signal handler of main.go, or a test).
\* The history flag of every call in flight is set.
Cancel ==
    /\ Alive /\ ~cancelled /\ mainPc # "returned"
    /\ cancelled' = TRUE
    /\ cancelMid' = (\E t \in Threads : tPc[t] = "stream")
    /\ ghost' = [t \in Threads |->
                   IF tPc[t] = "stream"
                   THEN [ghost[t] EXCEPT !.cancelledInFlight = TRUE]
                   ELSE ghost[t]]
    /\ UNCHANGED <<cfg, mainPc, runErr, loop, results, runCancelled, workChan,
                   chanCap, chanClosed, closeCount, prodPc, panicMsg, tPc,
                   tItem, stream, deltas, expired, metrics, invoked,
                   startOrder, lateCalls>>
    /\ UNCHANGED auxVars

\* ------------------------------------------------- Runner.runSequential
\* "select { case <-ctx.Done(): return ctx.Err(); default: }"
SeqReturn_Nil(err) ==
    /\ runErr' = "nil"
    /\ mainPc' = "run_defer"
SeqReturn(err) ==
    /\ runErr' = err
    /\ mainPc' = "run_defer"

\* The check before every repetition (lines 101-105).
RunCheck_Missing == FALSE
RunCheck == RunCtxDone

\* for _, promptFile := range promptFiles   (lines 62-67, 119)
SeqPromptLoop ==
    /\ Alive /\ mainPc = "seq_prompt"
    /\ IF loop.p = NumPrompts(cfg)
       THEN SeqReturn("nil") /\ loop' = loop
       ELSE IF RunCtxDone
            THEN SeqReturn("ctx_err") /\ loop' = [loop EXCEPT !.p = @ + 1]
            ELSE /\ loop' = [loop EXCEPT !.p = @ + 1,
                                         !.provLeft = cfg.providers]
                 /\ mainPc' = "seq_provider"
                 /\ runErr' = runErr
    /\ UNCHANGED <<cfg, results, cancelled, runCancelled, workChan, chanCap,
                   chanClosed, closeCount, prodPc, panicMsg, tPc, tItem,
                   stream, deltas, expired, metrics, ghost, invoked,
                   startOrder, lateCalls, cancelMid>>
    /\ UNCHANGED auxVars

\* for providerName, provider := range r.providers   (lines 74-86);
\* Go iterates a map in an unspecified order.
SeqProviderLoop ==
    /\ Alive /\ mainPc = "seq_provider"
    /\ IF loop.provLeft = {}
       THEN /\ mainPc' = "seq_prompt"
            /\ UNCHANGED <<loop, runErr>>
       ELSE \E pr \in loop.provLeft :
              IF RunCtxDone
              THEN /\ SeqReturn("ctx_err")
                   /\ loop' = [loop EXCEPT !.provLeft = @ \ {pr}]
              ELSE /\ runErr' = runErr
                   /\ IF ListModels(cfg, pr).err
                      THEN /\ loop' = [loop EXCEPT !.provLeft = @ \ {pr}]
                           /\ mainPc' = mainPc
                      ELSE /\ loop' = [loop EXCEPT
                                         !.provLeft = @ \ {pr},
                                         !.prov = pr,
                                         !.modelLeft = ListModels(cfg, pr).models]
                           /\ mainPc' = "seq_model"
    /\ UNCHANGED <<cfg, results, cancelled, runCancelled, workChan, chanCap,
                   chanClosed, closeCount, prodPc, panicMsg, tPc, tItem,
                   stream, deltas, expired, metrics, ghost, invoked,
                   startOrder, lateCalls, cancelMid>>
    /\ UNCHANGED auxVars

\* for _, modelName := range models   (lines 88-93)
SeqModelLoop ==
    /\ Alive /\ mainPc = "seq_model"
    /\ IF loop.modelLeft = {}
       THEN /\ mainPc' = "seq_provider"
            /\ UNCHANGED <<loop, runErr>>
       ELSE \E m \in loop.modelLeft :
              IF RunCtxDone
              THEN /\ SeqReturn("ctx_err")
                   /\ loop' = [loop EXCEPT !.modelLeft = @ \ {m}]
              ELSE /\ runErr' = runErr
                   /\ loop' = [loop EXCEPT !.modelLeft = @ \ {m},
                                           !.model = m, !.run = 0]
                   /\ mainPc' = "seq_run"
    /\ UNCHANGED <<cfg, results, cancelled, runCancelled, workChan, chanCap,
                   chanClosed, closeCount, prodPc, panicMsg, tPc, tItem,
                   stream, deltas, expired, metrics, ghost, invoked,
                   startOrder, lateCalls, cancelMid>>
    /\ UNCHANGED auxVars

\* "result := r.runSingleBenchmark(...); r.addResult(result)" (lines
\* 112-113) is a synchronous call: the loop goes on when it has returned.
SeqCallReturned_NotAwaited == TRUE
SeqCallReturned == tPc[0] = "off"

\* for run := 1; run <= r.config.Runs; run++   (lines 100-114): the check,
\* then runSingleBenchmark is entered on the main goroutine (thread 0); the
\* next iteration starts when the call has returned and was appended.
SeqRunLoop ==
    /\ Alive /\ mainPc = "seq_run" /\ SeqCallReturned
    /\ IF loop.run = cfg.Runs
       THEN /\ mainPc' = "seq_model"
            /\ UNCHANGED <<loop, runErr, tPc, tItem>>
       ELSE IF RunCheck
            THEN /\ SeqReturn("ctx_err")
                 /\ loop' = [loop EXCEPT !.run = @ + 1]
                 /\ UNCHANGED <<tPc, tItem>>
            ELSE /\ loop' = [loop EXCEPT !.run = @ + 1]
                 /\ tPc' = [tPc EXCEPT ![0] = "call"]
                 /\ tItem' = [tItem EXCEPT ![0] =
                        [prompt |-> loop.p, provider |-> loop.prov,
                         model |-> loop.model, run |-> loop.run + 1]]
                 /\ UNCHANGED <<mainPc, runErr>>
    /\ UNCHANGED <<cfg, results, cancelled, runCancelled, workChan, chanCap,
                   chanClosed, closeCount, prodPc, panicMsg,
                   stream, deltas, expired, metrics, ghost, invoked,
                   startOrder, lateCalls, cancelMid>>
    /\ UNCHANGED auxVars


\* --------------------------------------------- Runner.runSingleBenchmark
\* runSingleBenchmark returns its result and the caller (runSequential line
\* 113, worker line 205) appends it; the main goroutine goes back to its
\* loop, a worker to its select.
Finish(t, m) ==
    /\ results' = addResult(results, ToBenchmarkResult(m, tItem[t]))
    /\ tPc' = [tPc EXCEPT ![t] = IF t = 0 THEN "off" ELSE "recv"]
    /\ tItem' = [tItem EXCEPT ![t] = NoItem]
    /\ stream' = [stream EXCEPT ![t] = "none"]
    /\ deltas' = [deltas EXCEPT ![t] = 0]
    /\ expired' = [expired EXCEPT ![t] = FALSE]
    /\ metrics' = [metrics EXCEPT ![t] = NewMetrics]
    /\ ghost' = [ghost EXCEPT ![t] = NoGhost]

\* The per-call context (line 246) is done when its deadline has fired or
\* the run context is done.
TimeoutCtxDone(t) == expired[t] \/ RunCtxDone

\* Lines 251-258: StreamChat returned an error; the call is recorded as
\* failed and is not tried again.
StartFailed_Retry(t) ==
    UNCHANGED <<results, tPc, tItem, stream, deltas, expired, metrics, ghost>>
StartFailed(t) == Finish(t, SetError(metrics[t], "ProviderError"))

\* Lines 213-258: NewMetrics, the request, context.WithTimeout and
\* provider.StreamChat, which either fails synchronously (a pre-flight
\* error such as GeminiProvider's ValidateRequest) or starts the provider
\* goroutine and returns its unbuffered channel.
StartStream(t) ==
    /\ Alive /\ tPc[t] = "call"
    /\ invoked' = [invoked EXCEPT ![tItem[t]] = @ + 1]
    /\ startOrder' = IF t = 0 THEN Append(startOrder, tItem[t])
                              ELSE startOrder
    /\ lateCalls' = IF cancelled THEN lateCalls + 1 ELSE lateCalls
    /\ \E ok \in BOOLEAN :
         IF ok
         THEN /\ tPc' = [tPc EXCEPT ![t] = "stream"]
              /\ stream' = [stream EXCEPT ![t] = "work"]
              /\ UNCHANGED <<results, tItem, deltas, expired, metrics, ghost>>
         ELSE StartFailed(t)
    /\ UNCHANGED <<cfg, mainPc, runErr, loop, cancelled, runCancelled,
                   workChan, chanCap, chanClosed, closeCount, prodPc,
                   panicMsg, cancelMid>>
    /\ UNCHANGED auxVars

\* The provider goroutine (openai.go lines 88-129) gets its next event ready
\* and blocks in the send on the unbuffered channel: a non-empty delta, the
\* terminal error event (stream.Err() != nil, also when the context of the
\* call is done), or the completion event.
ProviderStep(t) ==
    /\ Alive /\ tPc[t] = "stream" /\ stream[t] = "work"
    /\ \E ev \in {"send_content", "send_error", "send_complete"} :
         /\ ev = "send_content" => deltas[t] < MaxDeltas
         /\ stream' = [stream EXCEPT ![t] = ev]
         /\ deltas' = [deltas EXCEPT ![t] =
                          IF ev = "send_content" THEN @ + 1 ELSE @]
    /\ UNCHANGED <<cfg, mainPc, runErr, loop, results, cancelled,
                   runCancelled, workChan, chanCap, chanClosed, closeCount,
                   prodPc, panicMsg, tPc, tItem, expired, metrics, ghost,
                   invoked, startOrder,
                   lateCalls, cancelMid>>
    /\ UNCHANGED auxVars

\* "defer close(responseChan)" of the provider goroutine, after its last
\* send was received.
ProviderClose(t) ==
    /\ Alive /\ tPc[t] = "stream" /\ stream[t] = "closing"
    /\ stream' = [stream EXCEPT ![t] = "closed"]
    /\ UNCHANGED <<cfg, mainPc, runErr, loop, results, cancelled,
                   runCancelled, workChan, chanCap, chanClosed, closeCount,
                   prodPc, panicMsg, tPc, tItem, deltas, expired, metrics,
                   ghost, invoked,
                   startOrder, lateCalls, cancelMid>>
    /\ UNCHANGED auxVars

\* The timer of context.WithTimeout(ctx, RequestTimeout) fires.  Once the
\* run context is done the per-call context is done already and the timer
\* changes nothing.
DeadlineExpires(t) ==
    /\ Alive /\ tPc[t] = "stream" /\ ~expired[t] /\ ~RunCtxDone
    /\ expired' = [expired EXCEPT ![t] = TRUE]
    /\ ghost' = [ghost EXCEPT ![t].expiredOpen = (stream[t] # "closed")]
    /\ UNCHANGED <<cfg, mainPc, runErr, loop, results, cancelled,
                   runCancelled, workChan, chanCap, chanClosed, closeCount,
                   prodPc, panicMsg, tPc, tItem, stream, deltas, metrics,
                   invoked, startOrder,
                   lateCalls, cancelMid>>
    /\ UNCHANGED auxVars

\* select, case <-timeoutCtx.Done() (lines 265-270).
SelectDone(t) ==
    /\ Alive /\ tPc[t] = "stream" /\ TimeoutCtxDone(t)
    /\ Finish(t, SetError(metrics[t], "TimeoutError"))
    /\ UNCHANGED <<cfg, mainPc, runErr, loop, cancelled, runCancelled,
                   workChan, chanCap, chanClosed, closeCount, prodPc,
                   panicMsg, invoked,
                   startOrder, lateCalls, cancelMid>>
    /\ UNCHANGED auxVars

\* select, case response, ok := <-responseChan with ok (lines 284-314).
SelectRecv(t) ==
    /\ Alive /\ tPc[t] = "stream"
    /\ stream[t] \in {"send_content", "send_error", "send_complete"}
    /\ IF stream[t] = "send_error"
       THEN Finish(t, SetError(metrics[t], "ProviderError"))
       ELSE /\ metrics' = [metrics EXCEPT ![t] =
                  IF stream[t] = "send_content"
                  THEN AddResponseContent(@)
                  ELSE @]
            /\ stream' = [stream EXCEPT ![t] =
                  IF stream[t] = "send_content" THEN "work" ELSE "closing"]
            /\ UNCHANGED <<results, tPc, tItem, deltas, expired, ghost>>
    /\ UNCHANGED <<cfg, mainPc, runErr, loop, cancelled, runCancelled,
                   workChan, chanCap, chanClosed, closeCount, prodPc,
                   panicMsg, invoked,
                   startOrder, lateCalls, cancelMid>>
    /\ UNCHANGED auxVars

\* select, case response, ok := <-responseChan with !ok (lines 273-282).
SelectClosed(t) ==
    /\ Alive /\ tPc[t] = "stream" /\ stream[t] = "closed"
    /\ Finish(t, Complete(metrics[t]))
    /\ UNCHANGED <<cfg, mainPc, runErr, loop, cancelled, runCancelled,
                   workChan, chanCap, chanClosed, closeCount, prodPc,
                   panicMsg, invoked,
                   startOrder, lateCalls, cancelMid>>
    /\ UNCHANGED auxVars

\* ------------------------------------------------- Runner.runConcurrent
\* Lines 130-166: make the queue, start the workers and the producer.
ConcStart ==
    /\ Alive /\ mainPc = "conc_start"
    /\ chanCap' = NumPrompts(cfg) * Cardinality(cfg.providers)
                    * AssumedModelsPerProvider * cfg.Runs
    /\ tPc' = [t \in Threads |->
                 IF t \in WorkerIds(cfg) THEN "recv" ELSE tPc[t]]
    /\ prodPc' = "start"
    /\ mainPc' = "conc_wait"
    /\ UNCHANGED <<cfg, runErr, loop, results, cancelled, runCancelled,
                   workChan, chanClosed, closeCount, panicMsg, tItem, stream,
                   deltas, expired, metrics, ghost, invoked,
                   startOrder, lateCalls, cancelMid>>
    /\ UNCHANGED auxVars

\* close(workChan): closing a closed channel panics.
CloseWorkChan ==
    IF chanClosed
    THEN /\ panicMsg' = "close of closed channel"
         /\ closeCount' = closeCount + 1
         /\ chanClosed' = chanClosed
    ELSE /\ chanClosed' = TRUE
         /\ closeCount' = closeCount + 1
         /\ panicMsg' = panicMsg

\* wg.Wait() returns once every worker has called wg.Done(); "return nil"
\* then runs runConcurrent's "defer close(workChan)" (line 132).
ConcWait ==
    /\ Alive /\ mainPc = "conc_wait"
    /\ \A t \in Threads : tPc[t] \in {"off", "exited"}
    /\ CloseWorkChan
    /\ runErr' = IF chanClosed THEN runErr ELSE "nil"
    /\ mainPc' = IF chanClosed THEN "panicked" ELSE "run_defer"
    /\ UNCHANGED <<cfg, loop, results, cancelled, runCancelled, workChan,
                   chanCap, prodPc, tPc, tItem, stream, deltas, expired,
                   metrics, ghost, invoked,
                   startOrder, lateCalls, cancelMid>>
    /\ UNCHANGED auxVars

\* The producer's loop nest (lines 146-165) from a position at the head of
\* the loop of the given level up to its next select (level "run" with a
\* repetition left) or its end: the positions it can reach without touching
\* shared state.  Go iterates the providers map, and ListModels builds the
\* model list from a map, in an unspecified order; a provider whose
\* ListModels fails is skipped (line 152).
RECURSIVE NextSend(_, _, _)
NextSend(c, level, l) ==
    CASE level = "run" ->
           IF l.run < c.Runs THEN {l}
           ELSE NextSend(c, "model", l)
      [] level = "model" ->
           IF l.modelLeft = {} THEN NextSend(c, "provider", l)
           ELSE UNION { NextSend(c, "run",
                           [l EXCEPT !.modelLeft = @ \ {m}, !.model = m,
                                     !.run = 0]) : m \in l.modelLeft }
      [] level = "provider" ->
           IF l.provLeft = {} THEN NextSend(c, "prompt", l)
           ELSE UNION { IF ListModels(c, pr).err
                        THEN NextSend(c, "provider",
                                [l EXCEPT !.provLeft = @ \ {pr}])
                        ELSE NextSend(c, "model",
                                [l EXCEPT !.provLeft = @ \ {pr}, !.prov = pr,
                                   !.modelLeft = ListModels(c, pr).models])
                        : pr \in l.provLeft }
      [] OTHER ->
           IF l.p = NumPrompts(c) THEN {[l EXCEPT !.run = c.Runs]}
           ELSE NextSend(c, "provider",
                   [l EXCEPT !.p = @ + 1, !.provLeft = c.providers])

\* The cursor is at the end of the loop nest.
LoopEnded(c, l) == l.p = NumPrompts(c) /\ l.provLeft = {} /\ l.modelLeft = {}
                   /\ l.run = c.Runs

\* The producer goroutine starts (line 144) and runs to its first select,
\* or to its end when there is no work item.
ProdBegin ==
    /\ Alive /\ prodPc = "start"
    /\ \E l \in NextSend(cfg, "prompt", LoopStart) :
         /\ loop' = l
         /\ prodPc' = IF LoopEnded(cfg, l) THEN "return" ELSE "select"
    /\ UNCHANGED <<cfg, mainPc, runErr, results, cancelled, runCancelled,
                   workChan, chanCap, chanClosed, closeCount, panicMsg, tPc,
                   tItem, stream, deltas, expired, metrics, ghost, invoked,
                   startOrder, lateCalls, cancelMid>>
    /\ UNCHANGED auxVars

\* The producer's select (lines 157-161): <-ctx.Done() returns; the send
\* proceeds when the buffer has room and panics when the channel is closed.
\* Go picks among the ready cases at random.  After a send the loops advance
\* to the next select or to the end.
ProdSelect ==
    /\ Alive /\ prodPc = "select"
    /\ \/ /\ RunCtxDone
          /\ prodPc' = "return"
          /\ UNCHANGED <<loop, workChan, panicMsg>>
       \/ /\ chanClosed
          /\ panicMsg' = "send on closed channel"
          /\ prodPc' = "panicked"
          /\ UNCHANGED <<loop, workChan>>
       \/ /\ ~chanClosed /\ Len(workChan) < chanCap
          /\ workChan' = Append(workChan,
                 [prompt |-> loop.p, provider |-> loop.prov,
                  model |-> loop.model, run |-> loop.run + 1])
          /\ \E l \in NextSend(cfg, "run", [loop EXCEPT !.run = @ + 1]) :
               /\ loop' = l
               /\ prodPc' = IF LoopEnded(cfg, l) THEN "return" ELSE "select"
          /\ panicMsg' = panicMsg
    /\ UNCHANGED <<cfg, mainPc, runErr, results, cancelled, runCancelled,
                   chanCap, chanClosed, closeCount, tPc, tItem, stream,
                   deltas, expired, metrics, ghost, invoked,
                   startOrder, lateCalls, cancelMid>>
    /\ UNCHANGED auxVars

\* The producer goroutine returns: its "defer close(workChan)" (line 145).
ProdReturn ==
    /\ Alive /\ prodPc = "return"
    /\ CloseWorkChan
    /\ prodPc' = IF chanClosed THEN "panicked" ELSE "exited"
    /\ UNCHANGED <<cfg, mainPc, runErr, loop, results, cancelled,
                   runCancelled, workChan, chanCap, tPc, tItem, stream,
                   deltas, expired, metrics, ghost, invoked,
                   startOrder, lateCalls, cancelMid>>
    /\ UNCHANGED auxVars

\* --------------------------------------------------------- Runner.worker
\* The worker's select (lines 187-193): <-ctx.Done() returns, a received
\* item is processed, a closed and drained queue returns; wg.Done() is
\* deferred.
WorkerSelect(t) ==
    /\ Alive /\ t # 0 /\ tPc[t] = "recv"
    /\ \/ /\ RunCtxDone
          /\ tPc' = [tPc EXCEPT ![t] = "exited"]
          /\ UNCHANGED <<workChan, tItem, ghost>>
       \/ /\ workChan # <<>>
          /\ tItem' = [tItem EXCEPT ![t] = Head(workChan)]
          /\ workChan' = Tail(workChan)
          /\ tPc' = [tPc EXCEPT ![t] = "call"]
          /\ ghost' = [ghost EXCEPT ![t].takenLate = RunCtxDone]
       \/ /\ workChan = <<>> /\ chanClosed
          /\ tPc' = [tPc EXCEPT ![t] = "exited"]
          /\ UNCHANGED <<workChan, tItem, ghost>>
    /\ UNCHANGED <<cfg, mainPc, runErr, loop, results, cancelled,
                   runCancelled, chanCap, chanClosed, closeCount, prodPc,
                   panicMsg, stream, deltas, expired, metrics, invoked,
                   startOrder, lateCalls, cancelMid>>
    /\ UNCHANGED auxVars

\* ------------------------------------------------------------ the system
Next ==
    \/ Run
    \/ RunDeferredCancel
    \/ Cancel
    \/ SeqPromptLoop
    \/ SeqProviderLoop
    \/ SeqModelLoop
    \/ SeqRunLoop
    \/ ConcStart
    \/ ConcWait
    \/ ProdBegin
    \/ ProdSelect
    \/ ProdReturn
    \/ \E t \in Threads : WorkerSelect(t)
    \/ \E t \in Threads : StartStream(t)
    \/ \E t \in Threads : ProviderStep(t)
    \/ \E t \in Threads : ProviderClose(t)
    \/ \E t \in Threads : DeadlineExpires(t)
    \/ \E t \in Threads : SelectDone(t)
    \/ \E t \in Threads : SelectRecv(t)
    \/ \E t \in Threads : SelectClosed(t)

Spec == Init /\ [][Next]_vars

\* ----------------------- one call of runSingleBenchmark, with its timing
\* The events a provider can put on responseChan: ChatResponse with the
\* length of Content, IsComplete and whether Error is set.
DeltaLens == {0, 4}
Events == [Content : DeltaLens, IsComplete : BOOLEAN, Error : BOOLEAN]

\* NewMetrics: StartTime is time.Now().
NewMetricsAt(t) == [ZeroMetrics EXCEPT !.StartTime = t]

\* Metrics.RecordFirstToken: FirstTokenTime is set once.
RecordFirstToken_Overwrite(m, t) == [m EXCEPT !.FirstTokenTime = t]
RecordFirstToken(m, t) ==
    IF m.FirstTokenTime = 0 THEN [m EXCEPT !.FirstTokenTime = t] ELSE m

\* Metrics.AddTokens
AddTokens(m, input, output) ==
    [m EXCEPT !.InputTokens = @ + input, !.OutputTokens = @ + output]

\* Metrics.AddResponseContent for a delta of n characters.
AddResponseContentLen(m, n) == [m EXCEPT !.Response = @ + n]

\* Metrics.Complete with time.Now() = t.  TokensPerSecond is kept as the
\* quotient OutputTokens / TotalTime.
CompleteAt_StaleEnd(m, t) ==
    [m EXCEPT !.Success = TRUE,
              !.TTFT = IF m.FirstTokenTime # 0
                       THEN m.FirstTokenTime - m.StartTime ELSE @,
              !.TotalTime = m.EndTime - m.StartTime,
              !.TotalTokens = m.InputTokens + m.OutputTokens]
CompleteAt(m, t) ==
    [m EXCEPT !.EndTime = t,
              !.Success = TRUE,
              !.TTFT = IF m.FirstTokenTime # 0
                       THEN m.FirstTokenTime - m.StartTime ELSE @,
              !.TotalTime = t - m.StartTime,
              !.TotalTokens = m.InputTokens + m.OutputTokens,
              !.TokensPerSecond =
                  IF t - m.StartTime > 0 /\ m.OutputTokens > 0
                  THEN Frac(m.OutputTokens, t - m.StartTime) ELSE @]

\* Metrics.SetError with time.Now() = t.  It computes no duration.
SetErrorAt_Timed(m, e, t) ==
    [m EXCEPT !.Error = e, !.Success = FALSE, !.EndTime = t,
              !.TotalTime = t - m.StartTime]
SetErrorAt(m, e, t) ==
    [m EXCEPT !.Error = e, !.Success = FALSE, !.EndTime = t]

\* Metrics.SetCost
SetCost(m, cost) == [m EXCEPT !.Cost = cost]

\* Metrics.ToBenchmarkResult: every field of the record is copied.
ToTimedResult_DropsError(m) ==
    [StartTime |-> m.StartTime, FirstTokenTime |-> m.FirstTokenTime,
     EndTime |-> m.EndTime, TTFT |-> m.TTFT, TotalTime |-> m.TotalTime,
     InputTokens |-> m.InputTokens, OutputTokens |-> m.OutputTokens,
     TotalTokens |-> m.TotalTokens, TokensPerSecond |-> m.TokensPerSecond,
     Cost |-> m.Cost, Response |-> m.Response, Error |-> "nil",
     Success |-> m.Success]
ToTimedResult(m) ==
    [StartTime |-> m.StartTime, FirstTokenTime |-> m.FirstTokenTime,
     EndTime |-> m.EndTime, TTFT |-> m.TTFT, TotalTime |-> m.TotalTime,
     InputTokens |-> m.InputTokens, OutputTokens |-> m.OutputTokens,
     TotalTokens |-> m.TotalTokens, TokensPerSecond |-> m.TokensPerSecond,
     Cost |-> m.Cost, Response |-> m.Response, Error |-> m.Error,
     Success |-> m.Success]

\* Provider.GetTokenCount of a text of n characters: n / 4, at least 1.
GetTokenCount(n) == IF n \div 4 < 1 THEN 1 ELSE n \div 4

\* The price of a listed model per million tokens: 0.15 and 0.6.
ListedPrice == [Input |-> Ratio(15, 100), Output |-> Ratio(60, 100)]

\* ModelsConfig.GetModelPricing: an error for a provider name outside the
\* switch and for a model without an entry.
GetModelPricing(pc) ==
    IF pc.providerKnown /\ pc.modelListed
    THEN [err |-> FALSE, price |-> ListedPrice]
    ELSE [err |-> TRUE, price |-> [Input |-> FloatZero, Output |-> FloatZero]]

\* ModelPricing.CalculateCost with a thousand tokens as the unit of price.
CalculateCost_PerThousand(price, inputTokens, outputTokens) ==
    FracAdd(FracMul(Ratio(inputTokens, 1000), price.Input),
            FracMul(Ratio(outputTokens, 1000), price.Output))

\* ModelPricing.CalculateCost: inputCost and outputCost, each the token
\* count divided by 1_000_000 and multiplied by the price, then their sum.
CalculateCost(price, inputTokens, outputTokens) ==
    LET inputCost == FracMul(Ratio(inputTokens, 1000000), price.Input)
        outputCost == FracMul(Ratio(outputTokens, 1000000), price.Output)
    IN FracAdd(inputCost, outputCost)

\* Runner.calculateCost: 0 when the pricing is not found.
calculateCost_ListPrice(pc, inputTokens, outputTokens) ==
    CalculateCost(ListedPrice, inputTokens, outputTokens)
calculateCost(pc, inputTokens, outputTokens) ==
    IF GetModelPricing(pc).err THEN FloatZero
    ELSE CalculateCost(GetModelPricing(pc).price, inputTokens, outputTokens)

\* response.Content != ""  (lines 295 and 301)
IsToken_AnyEvent(ev) == TRUE
IsToken(ev) == ev.Content # 0

CallInit ==
    /\ RunnerIdle
    /\ SummaryIdle
    /\ FactoryIdle
    /\ StoreIdle
    /\ PureIdle
    /\ StreamIdle
    /\ now = 1
    /\ cPc = "idle"
    /\ cMetrics = ZeroMetrics
    /\ firstTokenReceived = FALSE
    /\ fullResponse = 0
    /\ cEvents = 0
    /\ cExpired = FALSE
    /\ cResult = ZeroMetrics
    /\ cEnd = "none"
    /\ cPricing \in PricingCases
    /\ cPromptLen \in PromptLens
    /\ cCompleteSeen = FALSE
    /\ cCalls = <<>>
    /\ cRecords = 0

\* What no action of the call changes.
CallFrame ==
    UNCHANGED <<cfg, mainPc, runErr, loop, results, cancelled, runCancelled,
                workChan, chanCap, chanClosed, closeCount, prodPc, panicMsg,
                tPc, tItem, stream, deltas, expired, metrics, ghost, invoked,
                startOrder, lateCalls, cancelMid, summaryVars, cPricing,
                cPromptLen, factoryVars, storeVars, pureVars, chanVars>>

\* runSingleBenchmark returns metrics.ToBenchmarkResult(...).
CallReturn_Missing(m, how) ==
    /\ cMetrics' = m
    /\ cResult' = ToTimedResult(m)
    /\ cEnd' = how
    /\ cPc' = cPc
CallReturn(m, how) ==
    /\ cMetrics' = m
    /\ cResult' = ToTimedResult(m)
    /\ cEnd' = how
    /\ cPc' = "done"

\* Time passes.
Tick ==
    /\ now < MaxTime
    /\ now' = now + 1
    /\ UNCHANGED <<cPc, cMetrics, firstTokenReceived, fullResponse, cEvents,
                   cExpired, cResult, cEnd, cCompleteSeen, cCalls,
                   cRecords>>
    /\ CallFrame

\* Lines 213-258: NewMetrics and StreamChat, which returns the channel or
\* an error.
CallStart ==
    /\ cPc = "idle"
    /\ \E ok \in BOOLEAN :
         IF ok
         THEN /\ cMetrics' = NewMetricsAt(now)
              /\ cPc' = "streaming"
              /\ UNCHANGED <<cResult, cEnd, cCalls>>
         ELSE /\ CallReturn(SetErrorAt(NewMetricsAt(now), "ProviderError",
                                       now),
                            "start_failed")
              /\ cCalls' = cCalls \o <<"SetError", "ToBenchmarkResult">>
    /\ UNCHANGED <<now, firstTokenReceived, fullResponse, cEvents, cExpired,
                   cCompleteSeen, cRecords>>
    /\ CallFrame

\* The deadline of the per-call context passes, or its parent is cancelled.
CallDeadline ==
    /\ cPc = "streaming" /\ ~cExpired
    /\ cExpired' = TRUE
    /\ UNCHANGED <<now, cPc, cMetrics, firstTokenReceived, fullResponse,
                   cEvents, cResult, cEnd, cCompleteSeen, cCalls,
                   cRecords>>
    /\ CallFrame

\* select, case <-timeoutCtx.Done() (lines 265-270).
CallSelectDone ==
    /\ cPc = "streaming" /\ cExpired
    /\ CallReturn(SetErrorAt(cMetrics, "TimeoutError", now), "timeout")
    /\ cCalls' = cCalls \o <<"SetError", "ToBenchmarkResult">>
    /\ UNCHANGED <<now, firstTokenReceived, fullResponse, cEvents, cExpired,
                   cCompleteSeen, cRecords>>
    /\ CallFrame

\* select, case response, ok := <-responseChan with ok (lines 284-314): the
\* provider sends an event and the call handles it.
CallRecvEvent ==
    /\ cPc = "streaming" /\ cEvents < MaxEvents
    /\ \E ev \in Events :
         IF ev.Error
         THEN /\ CallReturn(SetErrorAt(cMetrics, "ProviderError", now),
                            "error_event")
              /\ cCalls' = cCalls \o <<"SetError", "ToBenchmarkResult">>
              /\ UNCHANGED <<firstTokenReceived, fullResponse,
                             cCompleteSeen, cRecords>>
         ELSE LET m1 == IF ~firstTokenReceived /\ IsToken(ev)
                        THEN RecordFirstToken(cMetrics, now) ELSE cMetrics
                  m2 == IF IsToken(ev)
                        THEN AddResponseContentLen(m1, ev.Content) ELSE m1
                  full == IF IsToken(ev) THEN fullResponse + ev.Content
                                         ELSE fullResponse
                  m3 == IF ev.IsComplete
                        THEN AddTokens(m2, GetTokenCount(cPromptLen),
                                       GetTokenCount(full))
                        ELSE m2
              IN /\ cMetrics' = m3
                 /\ fullResponse' = full
                 /\ firstTokenReceived' =
                      (firstTokenReceived \/ IsToken(ev))
                 /\ cCompleteSeen' = (cCompleteSeen \/ ev.IsComplete)
                 /\ cRecords' = IF ~firstTokenReceived /\ IsToken(ev)
                                THEN cRecords + 1 ELSE cRecords
                 /\ UNCHANGED <<cPc, cResult, cEnd, cCalls>>
    /\ cEvents' = cEvents + 1
    /\ UNCHANGED <<now, cExpired>>
    /\ CallFrame

\* Another holder of the record calls RecordFirstToken after the call has
\* recorded its first token: the method locks m.mu, so the calls on one
\* record happen one after the other.
CallRecordFirstToken ==
    /\ cPc = "streaming" /\ firstTokenReceived /\ cRecords < MaxRecords
    /\ cMetrics' = RecordFirstToken(cMetrics, now)
    /\ cRecords' = cRecords + 1
    /\ UNCHANGED <<now, cPc, firstTokenReceived, fullResponse, cEvents,
                   cExpired, cResult, cEnd, cCompleteSeen, cCalls>>
    /\ CallFrame

\* select, case response, ok := <-responseChan with !ok (lines 273-282): the
\* provider closed the channel.
CallRecvClosed ==
    /\ cPc = "streaming"
    /\ LET m == CompleteAt(cMetrics, now)
       IN CallReturn(SetCost(m, calculateCost(cPricing, m.InputTokens,
                                              m.OutputTokens)),
                     "closed")
    /\ cCalls' = cCalls \o <<"Complete", "SetCost", "ToBenchmarkResult">>
    /\ UNCHANGED <<now, firstTokenReceived, fullResponse, cEvents, cExpired,
                   cCompleteSeen, cRecords>>
    /\ CallFrame

CallNext ==
    \/ Tick
    \/ CallStart
    \/ CallDeadline
    \/ CallSelectDone
    \/ CallRecvEvent
    \/ CallRecordFirstToken
    \/ CallRecvClosed

CallSpec == CallInit /\ [][CallNext]_vars

\* ------------------------------------------- CalculateSummary (metrics.go)
\* Durations are counted in a unit of the clock (time.Duration counts
\* nanoseconds); costs in a unit of currency in which the sums are exact.
Durations == {0, 2, 4}
Costs == {0, 3}
\* Token counts of a result: none recorded, or those of one AddTokens call.
TokenCounts == {[in |-> 0, out |-> 0], [in |-> 1, out |-> 2]}

\* The BenchmarkResult fields that CalculateSummary reads, and TotalTime,
\* here one unit more than the TTFT of the result.
SummaryResults ==
    { [Success |-> ok, TTFT |-> d, TotalTime |-> d + 1, Cost |-> c,
       InputTokens |-> tk.in, OutputTokens |-> tk.out] :
        ok \in BOOLEAN, d \in Durations, c \in Costs, tk \in TokenCounts }

\* The results slices of at most n elements.
ResultSlices(n) == UNION { [1..k -> SummaryResults] : k \in 0..n }

RECURSIVE SumSeq(_)
SumSeq(q) == IF q = <<>> THEN 0 ELSE Head(q) + SumSeq(Tail(q))

\* The results for which the loop takes the "if result.Success" branch
\* (lines 206-211), in order.
Accumulated_All(rs) == rs
Accumulated(rs) == SelectSeq(rs, LAMBDA r : r.Success)

\* ttftDurations after the loop (line 208).
ttftDurations(rs) == [i \in 1..Len(Accumulated(rs)) |-> Accumulated(rs)[i].TTFT]

\* calculateAverageDuration: integer division of time.Duration.
calculateAverageDuration(durations) ==
    IF Len(durations) = 0 THEN 0
    ELSE SumSeq(durations) \div Len(durations)

\* calculateMinDuration
calculateMinDuration_First(durations) ==
    IF Len(durations) = 0 THEN 0 ELSE durations[1]
calculateMinDuration(durations) ==
    IF Len(durations) = 0 THEN 0
    ELSE CHOOSE d \in {durations[i] : i \in 1..Len(durations)} :
           \A i \in 1..Len(durations) : d <= durations[i]

\* calculateMaxDuration
calculateMaxDuration(durations) ==
    IF Len(durations) = 0 THEN 0
    ELSE CHOOSE d \in {durations[i] : i \in 1..Len(durations)} :
           \A i \in 1..Len(durations) : d >= durations[i]

\* calculatePercentileDuration: "For now, just return the average as a
\* placeholder" (lines 284-286); the percentile argument is not read.
calculatePercentileDuration(durations, percentile) ==
    IF Len(durations) = 0 THEN 0
    ELSE calculateAverageDuration(durations)

\* summary.ErrorRate = float64(FailedRuns) / float64(TotalRuns)  (line 218)
ErrorRateOf_SuccessRate(su) == Frac(su.SuccessfulRuns, su.TotalRuns)
ErrorRateOf(su) == Frac(su.FailedRuns, su.TotalRuns)

\* CalculateSummary, lines 194-236.  AvgTotalTime and AvgTokensPerSecond are
\* never assigned.
CalculateSummary(rs) ==
    IF Len(rs) = 0 THEN EmptySummary
    ELSE
      LET acc == Accumulated(rs)
          ttft == ttftDurations(rs)
          totalCost == SumSeq([i \in 1..Len(acc) |-> acc[i].Cost])
          counted == [EmptySummary EXCEPT
                        !.TotalRuns = Len(rs),
                        !.SuccessfulRuns =
                            Len(SelectSeq(rs, LAMBDA r : r.Success)),
                        !.FailedRuns =
                            Len(SelectSeq(rs, LAMBDA r : ~r.Success)),
                        !.TotalInputTokens =
                            SumSeq([i \in 1..Len(acc) |-> acc[i].InputTokens]),
                        !.TotalOutputTokens =
                            SumSeq([i \in 1..Len(acc) |-> acc[i].OutputTokens])]
          rated == [counted EXCEPT !.ErrorRate = ErrorRateOf(counted)]
          timed == IF Len(ttft) > 0
                   THEN [rated EXCEPT
                           !.AvgTTFT = calculateAverageDuration(ttft),
                           !.MinTTFT = calculateMinDuration(ttft),
                           !.MaxTTFT = calculateMaxDuration(ttft),
                           !.P95TTFT = calculatePercentileDuration(ttft, 95),
                           !.P99TTFT = calculatePercentileDuration(ttft, 99)]
                   ELSE rated
      IN [timed EXCEPT
            !.TotalCost = totalCost,
            !.AvgCostPerRun =
                IF timed.SuccessfulRuns > 0
                THEN Frac(totalCost, timed.SuccessfulRuns)
                ELSE FloatZero]

\* A caller holds a results slice of at most MaxResults elements.
SummaryInit ==
    /\ RunnerIdle
    /\ CallIdle
    /\ FactoryIdle
    /\ StoreIdle
    /\ PureIdle
    /\ StreamIdle
    /\ sumInput \in ResultSlices(MaxResults)
    /\ summary = EmptySummary
    /\ summarized = FALSE

\* The caller calls CalculateSummary on its slice.
Summarize ==
    /\ ~summarized
    /\ summary' = CalculateSummary(sumInput)
    /\ summarized' = TRUE
    /\ UNCHANGED <<cfg, mainPc, runErr, loop, results, cancelled,
                   runCancelled, workChan, chanCap, chanClosed, closeCount,
                   prodPc, panicMsg, tPc, tItem, stream, deltas, expired,
                   metrics, ghost, invoked, startOrder, lateCalls, cancelMid,
                   sumInput, callVars, factoryVars, storeVars, pureVars, chanVars>>

SummaryNext == Summarize

SummarySpec == SummaryInit /\ [][SummaryNext]_vars

\* --------------------------------------- ProviderFactory (factory.go)
\* What a constructor or createProvider returns: whether an instance was
\* built, the kind of the error, and whether the constructor was called.
Built == [ok |-> TRUE, err |-> "nil", ran |-> TRUE]
CtorFailed(kind) == [ok |-> FALSE, err |-> kind, ran |-> TRUE]
ConfigNotFound == [ok |-> FALSE, err |-> "ConfigurationError", ran |-> FALSE]

\* NewOpenAIProvider: a ConfigurationError for an empty APIKey.
NewOpenAIProvider(config) ==
    IF config = "noKey" THEN CtorFailed("ConfigurationError") ELSE Built

\* NewOpenAIResponsesProvider: the same for a blank APIKey.
NewOpenAIResponsesProvider(config) ==
    IF config = "noKey" THEN CtorFailed("ConfigurationError") ELSE Built

\* NewGeminiProvider: a ConfigurationError for an empty APIKey; then
\* genai.NewClient(ctx, nil), whose failure comes back as a ProviderError.
NewGeminiProvider(config) ==
    IF config = "noKey" THEN CtorFailed("ConfigurationError")
    ELSE IF genaiFails THEN CtorFailed("ProviderError")
    ELSE Built

\* config, ok := f.configs[key].(*XConfig): ok for a pointer to the struct.
TypeAssertionOk(key) == fConfigs[key] \in {"noKey", "valid"}

\* createProvider: the switch on the name; "openai_responses" reads the
\* config registered under "openai"; any other name is unknown.
createProvider(providerName) ==
    CASE providerName = "openai" ->
           IF ~TypeAssertionOk("openai") THEN ConfigNotFound
           ELSE NewOpenAIProvider(fConfigs["openai"])
      [] providerName = "openai_responses" ->
           IF ~TypeAssertionOk("openai") THEN ConfigNotFound
           ELSE NewOpenAIResponsesProvider(fConfigs["openai"])
      [] providerName = "gemini" ->
           IF ~TypeAssertionOk("gemini") THEN ConfigNotFound
           ELSE NewGeminiProvider(fConfigs["gemini"])
      [] OTHER -> ConfigNotFound

\* GetProvider without its second look at the cache.
DoubleCheck_Skipped(providerName) == FALSE

\* "Double-check after acquiring write lock".
DoubleCheck(providerName) == fProviders[providerName] # 0

\* ClearProviders forgetting to replace the map.
ClearedCache_Kept == fProviders

\* f.providers = make(map[string]Provider)
ClearedCache == EmptyCache

\* What no operation of the factory changes.
FactoryFrame ==
    UNCHANGED <<cfg, mainPc, runErr, loop, results, cancelled, runCancelled,
                workChan, chanCap, chanClosed, closeCount, prodPc, panicMsg,
                tPc, tItem, stream, deltas, expired, metrics, ghost, invoked,
                startOrder, lateCalls, cancelMid, summaryVars, callVars,
                storeVars, pureVars, chanVars,
                genaiFails>>

\* The config createProvider would read for the name.
RegisteredFor(providerName) ==
    CASE providerName \in {"openai", "openai_responses"} -> fConfigs["openai"]
      [] providerName = "gemini" -> fConfigs["gemini"]
      [] OTHER -> NoConfig

\* GetProvider(providerName) returns (provider, err) to caller c; via is
\* the return statement taken and reRegistered whether a cached instance
\* is returned while the config now registered for the name is another
\* than the one with an APIKey it was built from (both history).
GetReturn(c, providerName, provider, err, via) ==
    /\ gPc' = [gPc EXCEPT ![c] = "done"]
    /\ gRet' = [gRet EXCEPT ![c] =
                  [provider |-> provider, err |-> err, via |-> via,
                   reRegistered |-> (via \in {"fast", "recheck"}
                       /\ RegisteredFor(providerName) # "valid")]]
    /\ served' = IF err = "nil"
                 THEN [served EXCEPT ![providerName] = @ \cup {provider}]
                 ELSE served

FactoryInit ==
    /\ RunnerIdle
    /\ SummaryIdle
    /\ CallIdle
    /\ StoreIdle
    /\ PureIdle
    /\ StreamIdle
    /\ NewProviderFactory
    /\ genaiFails \in BOOLEAN

\* RegisterConfig dropping the instance cached under the name.
RegisterConfig_Invalidates(providerName, config) ==
    /\ registers < MaxRegisters
    /\ fMutex = 0
    /\ fConfigs' = [fConfigs EXCEPT ![providerName] = config]
    /\ fProviders' = [fProviders EXCEPT ![providerName] = 0]
    /\ registers' = registers + 1
    /\ UNCHANGED <<fMutex, gPc, gName, gRet, nextInst, served,
                   ctorRuns, ctorOk, preClear, clearedUpTo, gets, clears>>
    /\ FactoryFrame

\* RegisterConfig: under the write lock, overwrite configs[providerName].
RegisterConfig(providerName, config) ==
    /\ registers < MaxRegisters
    /\ fMutex = 0
    /\ fConfigs' = [fConfigs EXCEPT ![providerName] = config]
    /\ registers' = registers + 1
    /\ UNCHANGED <<fProviders, fMutex, gPc, gName, gRet, nextInst, served,
                   ctorRuns, ctorOk, preClear, clearedUpTo, gets, clears>>
    /\ FactoryFrame

\* GetProvider, lines 32-37: under the read lock, return the cached instance
\* or go on to the write lock.
GetProviderFast(c, providerName) ==
    /\ gets < MaxGets
    /\ gPc[c] \in {"idle", "done"}
    /\ fMutex = 0
    /\ gets' = gets + 1
    /\ gName' = [gName EXCEPT ![c] = providerName]
    /\ IF fProviders[providerName] # 0
       THEN GetReturn(c, providerName, fProviders[providerName], "nil",
                      "fast")
       ELSE /\ gPc' = [gPc EXCEPT ![c] = "missed"]
            /\ gRet' = [gRet EXCEPT ![c] = NoReturn]
            /\ UNCHANGED served
    /\ UNCHANGED <<fConfigs, fProviders, fMutex, nextInst, ctorRuns, ctorOk,
                   preClear, clearedUpTo, registers, clears>>
    /\ FactoryFrame

\* GetProvider, line 39: f.mutex.Lock().
GetProviderLock(c) ==
    /\ gPc[c] = "missed"
    /\ fMutex = 0
    /\ fMutex' = c
    /\ gPc' = [gPc EXCEPT ![c] = "locked"]
    /\ UNCHANGED <<fConfigs, fProviders, gName, gRet, nextInst, served,
                   ctorRuns, ctorOk, preClear, clearedUpTo, gets, registers,
                   clears>>
    /\ FactoryFrame

\* GetProvider, lines 40-54: the second look at the cache, createProvider,
\* the store, and the deferred Unlock.
GetProviderSlow(c) ==
    /\ gPc[c] = "locked"
    /\ fMutex = c
    /\ fMutex' = 0
    /\ LET providerName == gName[c]
           made == createProvider(providerName)
       IN IF DoubleCheck(providerName)
          THEN /\ GetReturn(c, providerName, fProviders[providerName],
                            "nil", "recheck")
               /\ UNCHANGED <<fProviders, nextInst, ctorRuns, ctorOk>>
          ELSE /\ ctorRuns' = [ctorRuns EXCEPT ![providerName] =
                                   IF made.ran THEN @ + 1 ELSE @]
               /\ IF made.ok
                  THEN /\ fProviders' =
                              [fProviders EXCEPT ![providerName] = nextInst]
                       /\ nextInst' = nextInst + 1
                       /\ ctorOk' = [ctorOk EXCEPT ![providerName] = @ + 1]
                       /\ GetReturn(c, providerName, nextInst, "nil", "built")
                  ELSE /\ GetReturn(c, providerName, 0, made.err,
                                 "failed")
                       /\ UNCHANGED <<fProviders, nextInst, ctorOk>>
    /\ UNCHANGED <<fConfigs, gName, preClear, clearedUpTo, gets, registers,
                   clears>>
    /\ FactoryFrame

\* ClearProviders: under the write lock, replace the cache by an empty map.
ClearProviders ==
    /\ clears < MaxClears
    /\ fMutex = 0
    /\ fProviders' = ClearedCache
    /\ preClear' = fProviders
    /\ clearedUpTo' = nextInst - 1
    /\ served' = [n \in FactoryNames |-> {}]
    /\ ctorRuns' = [n \in FactoryNames |-> 0]
    /\ ctorOk' = [n \in FactoryNames |-> 0]
    /\ clears' = clears + 1
    /\ UNCHANGED <<fConfigs, fMutex, gPc, gName, gRet, nextInst, gets,
                   registers>>
    /\ FactoryFrame

FactoryNext ==
    \/ \E n \in ConfigNames, v \in ConfigValues : RegisterConfig(n, v)
    \/ \E c \in Callers, n \in FactoryNames : GetProviderFast(c, n)
    \/ \E c \in Callers : GetProviderLock(c)
    \/ \E c \in Callers : GetProviderSlow(c)
    \/ ClearProviders

FactorySpec == FactoryInit /\ [][FactoryNext]_vars

\* ------------------------ Runner.results: addResult, GetResults, GetSummary
\* A slice is a header (backing array, length); its capacity is the length
\* of the backing array.  Elements are BenchmarkResult values, reduced to
\* the fields CalculateSummary reads.
ZeroResult ==
    [Success |-> FALSE, TTFT |-> 0, Cost |-> 0,
     InputTokens |-> 0, OutputTokens |-> 0]
StoreResults ==
    {ZeroResult,
     [Success |-> TRUE, TTFT |-> 2, Cost |-> 3,
      InputTokens |-> 1, OutputTokens |-> 2]}

SliceCap(h, sl) == IF sl.arr = 0 THEN 0 ELSE Len(h[sl.arr])
Contents(h, sl) == IF sl.arr = 0 THEN <<>> ELSE SubSeq(h[sl.arr], 1, sl.len)

\* append(sl, x): in place when the backing array has room, else into a
\* new array of twice the capacity that takes over the old elements.
AppendSlice(h, sl, x) ==
    IF sl.len < SliceCap(h, sl)
    THEN [heap  |-> [h EXCEPT ![sl.arr][sl.len + 1] = x],
          slice |-> [arr |-> sl.arr, len |-> sl.len + 1]]
    ELSE LET newCap == IF SliceCap(h, sl) = 0 THEN 1
                       ELSE 2 * SliceCap(h, sl)
             grown == [i \in 1..newCap |->
                          IF i <= sl.len THEN h[sl.arr][i]
                          ELSE IF i = sl.len + 1 THEN x
                          ELSE ZeroResult]
         IN [heap  |-> Append(h, grown),
             slice |-> [arr |-> Len(h) + 1, len |-> sl.len + 1]]

\* GetResults handing out r.results itself.
ReturnedSlice_Alias(fresh) == stored

\* GetResults, lines 343-345: the slice returned is the one just made.
ReturnedSlice(fresh) == [arr |-> fresh, len |-> stored.len]

StoreInit ==
    /\ RunnerIdle
    /\ SummaryIdle
    /\ CallIdle
    /\ FactoryIdle
    /\ StoreIdle
    /\ PureIdle
    /\ StreamIdle

\* What no operation on the results changes.
StoreFrame ==
    UNCHANGED <<cfg, mainPc, runErr, loop, results, cancelled, runCancelled,
                workChan, chanCap, chanClosed, closeCount, prodPc, panicMsg,
                tPc, tItem, stream, deltas, expired, metrics, ghost, invoked,
                startOrder, lateCalls, cancelMid, sumInput, callVars,
                factoryVars, pureVars, chanVars>>

\* addResult: under the write lock, r.results = append(r.results, result).
StoreAddResult(result) ==
    /\ Len(addLog) < MaxAdds
    /\ LET a == AppendSlice(heap, stored, result)
       IN /\ heap' = a.heap
          /\ stored' = a.slice
    /\ addLog' = Append(addLog, result)
    /\ UNCHANGED <<held, hasHeld, reads, writes, summary, summarized>>
    /\ StoreFrame

\* GetResults: under the read lock, make a slice of len(r.results), copy
\* r.results into it, return it.
GetResults ==
    /\ reads < MaxReads
    /\ heap' = Append(heap, Contents(heap, stored))
    /\ held' = ReturnedSlice(Len(heap) + 1)
    /\ hasHeld' = TRUE
    /\ reads' = reads + 1
    /\ UNCHANGED <<stored, addLog, writes, summary, summarized>>
    /\ StoreFrame

\* GetSummary: CalculateSummary(r.GetResults()).
GetSummary ==
    /\ reads < MaxReads
    /\ heap' = Append(heap, Contents(heap, stored))
    /\ summary' = CalculateSummary(
                      Contents(heap', ReturnedSlice(Len(heap) + 1)))
    /\ summarized' = TRUE
    /\ reads' = reads + 1
    /\ UNCHANGED <<stored, held, hasHeld, addLog, writes>>
    /\ StoreFrame

\* The caller of GetResults assigns to an element of the slice it got.
HeldWrite(i, result) ==
    /\ hasHeld
    /\ writes < MaxWrites
    /\ i \in 1..held.len
    /\ heap' = [heap EXCEPT ![held.arr][i] = result]
    /\ writes' = writes + 1
    /\ UNCHANGED <<stored, held, hasHeld, addLog, reads, summary, summarized>>
    /\ StoreFrame

\* The caller of GetResults appends to the slice it got.
HeldAppend(result) ==
    /\ hasHeld
    /\ writes < MaxWrites
    /\ LET a == AppendSlice(heap, held, result)
       IN /\ heap' = a.heap
          /\ held' = a.slice
    /\ writes' = writes + 1
    /\ UNCHANGED <<stored, hasHeld, addLog, reads, summary, summarized>>
    /\ StoreFrame

StoreNext ==
    \/ \E r \in StoreResults : StoreAddResult(r)
    \/ GetResults
    \/ GetSummary
    \/ \E i \in 1..MaxAdds, r \in StoreResults : HeldWrite(i, r)
    \/ \E r \in StoreResults : HeldAppend(r)

StoreSpec == StoreInit /\ [][StoreNext]_vars

\* ------------------------------------- functions of the adapters, alone
\* The requests ValidateRequest is given.
Requests ==
    [Model : {0, 6}, UserPrompt : {0, 5}, MaxTokens : {-1, 0, 100},
     Temperature : {-1, 0, 10, 11, 20, 21}, TopP : {-1, 0, 10, 11}]

\* The largest temperature the adapter accepts, in tenths: 1 for Anthropic
\* (openai_responses.go:416), 2 for the others.
MaxTemperature(adapter) == IF adapter = "anthropic" THEN 10 ELSE 20

Invalid(field) == [err |-> "ValidationError", field |-> field]

\* ValidateRequest without the check of the user prompt.
ValidateRequest_NoPromptCheck(adapter, req) ==
    IF req.Model = 0 THEN Invalid("model")
    ELSE IF req.MaxTokens < 0 THEN Invalid("max_tokens")
    ELSE IF req.Temperature < 0 \/ req.Temperature > MaxTemperature(adapter)
         THEN Invalid("temperature")
    ELSE IF req.TopP < 0 \/ req.TopP > 10 THEN Invalid("top_p")
    ELSE [err |-> "nil", field |-> "none"]

\* ValidateRequest: the first failing check decides; the same five checks
\* in every adapter.
ValidateRequest(adapter, req) ==
    IF req.Model = 0 THEN Invalid("model")
    ELSE IF req.UserPrompt = 0 THEN Invalid("user_prompt")
    ELSE IF req.MaxTokens < 0 THEN Invalid("max_tokens")
    ELSE IF req.Temperature < 0 \/ req.Temperature > MaxTemperature(adapter)
         THEN Invalid("temperature")
    ELSE IF req.TopP < 0 \/ req.TopP > 10 THEN Invalid("top_p")
    ELSE [err |-> "nil", field |-> "none"]

\* The token counts and the prices per million tokens (0, 0.15, 0.6, 2.5)
\* CalculateCost is given.
TokenArgs == {0, 1000, 500000, 1000000}
Prices == {FloatZero, Ratio(15, 100), Ratio(60, 100), Ratio(5, 2)}

RECURSIVE Pow2(_)
Pow2(n) == IF n = 0 THEN 1 ELSE 2 * Pow2(n - 1)

\* GetRetryDelay, in milliseconds: baseDelay is attempt*attempt seconds, in
\* the Gemini adapter 1<<attempt seconds (gemini.go:254); it is capped at 30
\* seconds, and attempt * 100 ms are added.  err is not read.
GetRetryDelay(adapter, attempt, err) ==
    LET baseDelay == IF adapter = "gemini" THEN Pow2(attempt) * 1000
                     ELSE attempt * attempt * 1000
        capped == IF baseDelay > 30 * 1000 THEN 30 * 1000 ELSE baseDelay
        jitter == attempt * 100
    IN capped + jitter

\* One function is about to be called, once, with arguments of its kind.
PureInit ==
    /\ RunnerIdle /\ SummaryIdle /\ CallIdle /\ FactoryIdle /\ StoreIdle
    /\ StreamIdle
    /\ pAdapter \in Adapters \cup MergingAdapters
    /\ pOut = NoOutput
    /\ pDone = FALSE
    /\ \/ /\ pOp = "merge"
          /\ \E x \in SUBSET PayloadKeys, sp \in BOOLEAN :
                pIn = [NoArgs EXCEPT !.extraParams = x, !.sampling = sp]
       \/ /\ pOp = "validate"
          /\ \E r \in Requests : pIn = [NoArgs EXCEPT !.req = r]
       \/ /\ pOp = "delay"
          /\ \E a \in 1..MaxAttempt, e \in {"nil", "ProviderError"} :
                pIn = [NoArgs EXCEPT !.attempt = a, !.err = e]
       \/ /\ pOp = "count"
          /\ \E n \in 0..MaxTextLen : pIn = [NoArgs EXCEPT !.textLen = n]
       \/ /\ pOp = "cost"
          /\ \E i \in TokenArgs, o \in TokenArgs, pi \in Prices, po \in Prices :
                pIn = [NoArgs EXCEPT !.inputTokens = i, !.outputTokens = o,
                                     !.price = [Input |-> pi, Output |-> po]]
    /\ pAdapter \in IF pOp = "merge" THEN MergingAdapters ELSE Adapters

PureFrame ==
    UNCHANGED <<cfg, mainPc, runErr, loop, results, cancelled, runCancelled,
                workChan, chanCap, chanClosed, closeCount, prodPc, panicMsg,
                tPc, tItem, stream, deltas, expired, metrics, ghost, invoked,
                startOrder, lateCalls, cancelMid, summaryVars, callVars,
                factoryVars, storeVars, chanVars, pOp, pAdapter, pIn>>

\* The caller calls provider.ValidateRequest(req).
CallValidateRequest ==
    /\ pOp = "validate" /\ ~pDone
    /\ LET v == ValidateRequest(pAdapter, pIn.req)
       IN pOut' = [pOut EXCEPT !.err = v.err, !.field = v.field]
    /\ pDone' = TRUE
    /\ PureFrame

\* The caller calls pricing.CalculateCost(inputTokens, outputTokens).
CallCalculateCost ==
    /\ pOp = "cost" /\ ~pDone
    /\ pOut' = [pOut EXCEPT !.cost = CalculateCost(pIn.price, pIn.inputTokens,
                                                   pIn.outputTokens)]
    /\ pDone' = TRUE
    /\ PureFrame

\* The caller calls provider.GetRetryDelay(attempt, err).
CallGetRetryDelay ==
    /\ pOp = "delay" /\ ~pDone
    /\ pOut' = [pOut EXCEPT !.delay =
                                GetRetryDelay(pAdapter, pIn.attempt, pIn.err)]
    /\ pDone' = TRUE
    /\ PureFrame

\* The caller calls provider.GetTokenCount(text); the function is the same
\* in every adapter.
CallGetTokenCount ==
    /\ pOp = "count" /\ ~pDone
    /\ pOut' = [pOut EXCEPT !.count = GetTokenCount(pIn.textLen)]
    /\ pDone' = TRUE
    /\ PureFrame

\* The payload a request is sent with: for each key, "req" when its value
\* is computed from the request, "extra" when it is the value of the
\* ExtraParams entry of that key, "absent" when the payload has no such key.
\* sampling: the request's Temperature is positive and the model accepts
\* sampling parameters.
BasePayload(adapter, sampling) ==
    [k \in PayloadKeys |->
        IF k \in {"model", "stream"} THEN "req"
        ELSE IF k = (IF adapter = "openai" THEN "messages" ELSE "input")
        THEN "req"
        ELSE IF k = "temperature" /\ sampling THEN "req"
        ELSE "absent"]

\* The keys the merge loop skips: openai.go line 190, openai_responses.go
\* line 86.
SkippedKeys(adapter) ==
    IF adapter = "openai" THEN {"model", "stream", "messages"}
    ELSE {"model", "stream"}

\* The loop over req.ExtraParams (openai.go lines 188-195,
\* openai_responses.go lines 83-92).
MergeExtraParams(adapter, base, extraParams) ==
    [k \in PayloadKeys |->
        IF k \in extraParams /\ k \notin SkippedKeys(adapter)
        THEN "extra" ELSE base[k]]

\* streamChatDirect, or the goroutine of OpenAIResponsesProvider.StreamChat,
\* builds its payload.
CallBuildPayload ==
    /\ pOp = "merge" /\ ~pDone
    /\ pOut' = [pOut EXCEPT !.payload =
                  MergeExtraParams(pAdapter,
                                   BasePayload(pAdapter, pIn.sampling),
                                   pIn.extraParams)]
    /\ pDone' = TRUE
    /\ PureFrame

PureNext ==
    \/ CallBuildPayload
    \/ CallValidateRequest
    \/ CallGetTokenCount
    \/ CallGetRetryDelay
    \/ CallCalculateCost

PureSpec == PureInit /\ [][PureNext]_vars

\* ------------------------------- one call's stream (providers, runner.go)
\* The goroutine that StreamChat starts and the select loop of
\* runSingleBenchmark that reads its channel.  responseChan is unbuffered
\* (make(chan ChatResponse)) and every send of every adapter is a bare
\* "responseChan <- ...": a send completes only in a step with the select's
\* receive.

\* The goroutine is blocked in a send.
Sending == {"send_content", "send_error", "send_complete"}

\* StreamChat has returned the channel, the goroutine is about to call
\* stream.Next() and runSingleBenchmark enters its select loop.
StreamInit ==
    /\ RunnerIdle /\ SummaryIdle /\ CallIdle /\ FactoryIdle /\ StoreIdle
    /\ PureIdle
    /\ goPc = "next"
    /\ chunks = 0
    /\ received = 0
    /\ callCtx = "live"
    /\ selPc = "select"
    /\ selEnd = "none"

StreamFrame ==
    UNCHANGED <<cfg, mainPc, runErr, loop, results, cancelled, runCancelled,
                workChan, chanCap, chanClosed, closeCount, prodPc, panicMsg,
                tPc, tItem, stream, deltas, expired, metrics, ghost, invoked,
                startOrder, lateCalls, cancelMid, summaryVars, callVars,
                factoryVars, storeVars, pureVars>>

\* stream.Next() returns true: a chunk whose delta is sent when it is not
\* empty (openai.go lines 94-107).
StreamNext ==
    /\ goPc = "next" /\ chunks < MaxEvents
    /\ chunks' = chunks + 1
    /\ \E nonEmpty \in BOOLEAN :
         goPc' = IF nonEmpty THEN "send_content" ELSE "next"
    /\ UNCHANGED <<received, callCtx, selPc, selEnd>>
    /\ StreamFrame

\* stream.Next() returns false: stream.Err() is checked and the terminal
\* error event or the completion event is sent (lines 109-129).  A done
\* context makes the upstream read fail.
StreamEnd ==
    /\ goPc = "next"
    /\ \E failed \in BOOLEAN :
         /\ callCtx # "live" => failed
         /\ goPc' = IF failed THEN "send_error" ELSE "send_complete"
    /\ UNCHANGED <<chunks, received, callCtx, selPc, selEnd>>
    /\ StreamFrame

\* The goroutine returns after its terminal send and the deferred
\* close(responseChan) runs (line 89).
StreamClose ==
    /\ goPc = "return"
    /\ goPc' = "closed"
    /\ UNCHANGED <<chunks, received, callCtx, selPc, selEnd>>
    /\ StreamFrame

\* The deadline of context.WithTimeout passes, or the run context is
\* cancelled (runner.go line 246).
StreamCtxDone ==
    /\ callCtx = "live" /\ selPc = "select"
    /\ \E how \in {"deadline", "cancelled"} : callCtx' = how
    /\ UNCHANGED <<goPc, chunks, received, selPc, selEnd>>
    /\ StreamFrame

\* select, case <-timeoutCtx.Done() (runner.go lines 265-270): the call
\* returns and nothing reads responseChan any more.
StreamSelectDone ==
    /\ selPc = "select" /\ callCtx # "live"
    /\ selPc' = "returned"
    /\ selEnd' = "timeout"
    /\ UNCHANGED <<goPc, chunks, received, callCtx>>
    /\ StreamFrame

\* Where the goroutine goes when its send has completed: back to
\* stream.Next() after a delta, to its return after the terminal error
\* event (openai.go line 120) and after the completion event (line 129).
AfterSend_NoReturn(sent) == IF sent = "send_complete" THEN "return" ELSE "next"
AfterSend(sent) == IF sent = "send_content" THEN "next" ELSE "return"

\* select, case response, ok := <-responseChan with ok (lines 284-314): the
\* send of the goroutine completes; an error event makes the call return
\* (lines 285-291), any other event is handled and the loop goes on.
StreamSelectRecv ==
    /\ selPc = "select" /\ goPc \in Sending
    /\ received' = received + 1
    /\ goPc' = AfterSend(goPc)
    /\ IF goPc = "send_error"
       THEN selPc' = "returned" /\ selEnd' = "error_event"
       ELSE UNCHANGED <<selPc, selEnd>>
    /\ UNCHANGED <<chunks, callCtx>>
    /\ StreamFrame

\* select, case response, ok := <-responseChan with !ok (lines 273-282).
StreamSelectClosed ==
    /\ selPc = "select" /\ goPc = "closed"
    /\ selPc' = "returned"
    /\ selEnd' = "closed"
    /\ UNCHANGED <<goPc, chunks, received, callCtx>>
    /\ StreamFrame

StreamStepNext ==
    \/ StreamNext
    \/ StreamEnd
    \/ StreamClose
    \/ StreamCtxDone
    \/ StreamSelectDone
    \/ StreamSelectRecv
    \/ StreamSelectClosed

StreamSpec == StreamInit /\ [][StreamStepNext]_vars

\* ------------------------------------------------------------- properties
\* Run is over: it returned, or runConcurrent reached its "return nil" and
\* crashed in its deferred close.
RunEnded == mainPc \in {"returned", "panicked"}

\* The number of results recorded for a work item.
ResultsFor(i) == Cardinality({k \in 1..Len(results) : results[k].item = i})

\* The number of StreamChat invocations made so far.
RECURSIVE SumInvoked(_)
SumInvoked(S) ==
    IF S = {} THEN 0
    ELSE LET i == CHOOSE x \in S : TRUE
         IN invoked[i] + SumInvoked(S \ {i})

\* Calls in flight: StreamChat was invoked and the result is not appended.
InFlight == SumInvoked(DOMAIN invoked) - Len(results)

\* The pool size of the run: 1 in sequential mode, else the -concurrent flag.
PoolSize == IF cfg.Concurrent <= 1 THEN 1 ELSE cfg.Concurrent

\* C1: in concurrent mode (N >= 2) with no cancellation Run returns nil
\* without a panic, and the work queue is closed exactly once, by the
\* producer, with nothing sent on it after the close.
C1_ConcurrentRunClosesQueueOnce ==
    (cfg.Concurrent >= 2 /\ ~LoadPrompts(cfg.dir).err /\ ~cancelled) =>
        /\ panicMsg = "none"
        /\ closeCount <= 1
        /\ mainPc # "panicked"
        /\ mainPc = "returned" => (runErr = "nil" /\ closeCount = 1)

\* C2: cancelling the run mid-execution in concurrent mode (N >= 2) leaves
\* fewer results than work items and causes no panic; the workers and the
\* producer exit and Run returns.
C2_ConcurrentCancelIsClean ==
    (cfg.Concurrent >= 2 /\ cancelMid) =>
        /\ panicMsg = "none"
        /\ prodPc # "panicked"
        /\ mainPc = "returned" =>
              /\ runErr = "nil"
              /\ Len(results) < Cardinality(WorkItems(cfg))

\* C3: when the prompts were loaded and the run was never cancelled, then at
\* the end of Run every work item has exactly one result and StreamChat was
\* invoked exactly once for it, whatever the outcome of the call.
C3_OneResultAndOneCallPerItem ==
    (RunEnded /\ ~LoadPrompts(cfg.dir).err /\ ~cancelled) =>
        /\ Len(results) = Cardinality(WorkItems(cfg))
        /\ \A i \in WorkItems(cfg) : ResultsFor(i) = 1 /\ invoked[i] = 1

C3_Witness ==
    /\ cfg.Concurrent <= 1 /\ mainPc = "returned" /\ ~cancelled
    /\ Len(results) = 2
    /\ \E k \in 1..2 : ~results[k].Success /\ results[k].Error = "ProviderError"
    /\ \E k \in 1..2 : results[k].Success

\* C4: a failed call aborts only itself: it is appended as a failed result,
\* the remaining work items are still executed and Run returns nil.
C4_FailedCallDoesNotStopRun ==
    (RunEnded /\ ~LoadPrompts(cfg.dir).err /\ ~cancelled
       /\ \E k \in 1..Len(results) : ~results[k].Success) =>
        /\ mainPc = "returned" /\ runErr = "nil"
        /\ \A i \in WorkItems(cfg) : ResultsFor(i) = 1

\* C5: a call whose deadline expired before its stream had closed is
\* recorded as a failed result with a Timeout-kind error.
C5_ExpiredCallIsTimeout ==
    [][\A t \in Threads :
         (tPc[t] = "stream" /\ ghost[t].expiredOpen /\ tPc'[t] # "stream") =>
            /\ Len(results') = Len(results) + 1
            /\ ~results'[Len(results')].Success
            /\ results'[Len(results')].Error = "TimeoutError"]_vars

C7_SequentialResultsInStartOrder ==
    cfg.Concurrent <= 1 =>
        /\ Len(results) <= Len(startOrder)
        /\ \A i \in 1..Len(results) : results[i].item = startOrder[i]

C7_Witness ==
    /\ cfg.Concurrent <= 1 /\ Len(results) = 2 /\ tPc[0] = "off"
    /\ results[1].item # results[2].item

\* C8 as stated: in sequential mode StreamChat is never invoked after the
\* run context was cancelled.
C8_NoCallAfterCancel == cfg.Concurrent <= 1 => lateCalls = 0

\* C8: in sequential mode at most one call is started after the cancellation,
\* the one whose check before the repetition had passed already; every check
\* made after the cancellation returns.
C8_AtMostOneCallAfterCancel ==
    cfg.Concurrent <= 1 =>
        lateCalls + (IF cancelled /\ tPc[0] = "call" THEN 1 ELSE 0) <= 1

C8_Witness ==
    /\ cfg.Concurrent <= 1 /\ lateCalls = 1
    /\ mainPc = "returned" /\ runErr = "ctx_err"

\* C9: a call in flight when the run is cancelled gets exactly one result,
\* with Success = false and a timeout/cancellation-kind error.
C9_CancelledCallIsTimeout ==
    [][\A t \in Threads :
         (tPc[t] = "stream" /\ ghost[t].cancelledInFlight
            /\ tPc'[t] # "stream") =>
            /\ Len(results') = Len(results) + 1
            /\ results'[Len(results')].item = tItem[t]
            /\ ~results'[Len(results')].Success
            /\ results'[Len(results')].Error = "TimeoutError"]_vars

\* C10: when loading the prompts fails Run returns the error: StreamChat is
\* not invoked, no worker and no producer is started, no result is recorded.
C10_LoadFailureAbortsRun ==
    LoadPrompts(cfg.dir).err =>
        /\ mainPc \in {"idle", "returned"}
        /\ mainPc = "returned" => runErr = "load_error"
        /\ results = <<>> /\ startOrder = <<>> /\ lateCalls = 0
        /\ InFlight = 0
        /\ prodPc = "off" /\ chanCap = -1
        /\ \A t \in Threads : tPc[t] = "off"

C10_Witness ==
    /\ LoadPrompts(cfg.dir).err /\ cfg.dir.files > 0
    /\ mainPc = "returned" /\ runErr = "load_error"

\* C11: every successful result has TTFT <= TotalTime, with TTFT = first-token
\* time - start time (0 when no token was observed) and TotalTime = end time
\* - start time, for every sequence of stream events.
C11_TTFTAtMostTotalTime ==
    (cPc = "done" /\ cResult.Success) =>
        /\ cResult.TTFT <= cResult.TotalTime
        /\ cResult.TTFT >= 0
        /\ cResult.TTFT = IF cResult.FirstTokenTime = 0 THEN 0
                          ELSE cResult.FirstTokenTime - cResult.StartTime
        /\ cResult.TotalTime = cResult.EndTime - cResult.StartTime

C11_Witness ==
    /\ cPc = "done" /\ cResult.Success
    /\ cResult.TTFT > 0 /\ cResult.TTFT < cResult.TotalTime
    /\ cEvents = MaxEvents

\* C12: a call whose stream carried no non-empty delta and was then closed
\* without an error event is recorded with Success = true and TTFT = 0.
C12_EmptyStreamIsSuccess ==
    (cPc = "done" /\ cEnd = "closed" /\ fullResponse = 0) =>
        /\ cResult.Success /\ cResult.Error = "nil"
        /\ cResult.TTFT = 0 /\ cResult.FirstTokenTime = 0
        /\ cResult.Response = 0

C12_Witness ==
    /\ cPc = "done" /\ cEnd = "closed" /\ fullResponse = 0
    /\ cEvents >= 2 /\ cResult.InputTokens > 0
    /\ cResult.TotalTime > 0
    /\ cResult.Success /\ cResult.TTFT = 0

\* C13: a successful call without a pricing record for its (provider, model)
\* pair has cost 0 and is recorded as successful; the missing record causes
\* no error and no failed result.
C13_MissingPricingCostsZero ==
    (cPc = "done" /\ cEnd = "closed" /\ ~(cPricing.providerKnown
                                           /\ cPricing.modelListed)) =>
        /\ cResult.Success /\ cResult.Error = "nil"
        /\ cResult.Cost = FloatZero

C13_Witness ==
    /\ cPc = "done" /\ cEnd = "closed"
    /\ cPricing.providerKnown /\ ~cPricing.modelListed
    /\ cResult.OutputTokens > 1 /\ cResult.InputTokens > 1
    /\ cResult.Success /\ cResult.Cost = FloatZero

\* The indices of the successful results of the slice given to
\* CalculateSummary, and the sum of a field over a set of indices.
SuccessIdx == {i \in 1..Len(sumInput) : sumInput[i].Success}

RECURSIVE SumField(_, _)
SumField(I, field) ==
    IF I = {} THEN 0
    ELSE LET i == CHOOSE x \in I : TRUE
         IN sumInput[i][field] + SumField(I \ {i}, field)

C17_PercentileIsNearestRank ==
    LET n == Cardinality(SuccessIdx)
        Rank(p) == IF (p * n + 99) \div 100 > n THEN n
                   ELSE (p * n + 99) \div 100
        NearestRank(p) ==
            CHOOSE v \in {sumInput[i].TTFT : i \in SuccessIdx} :
              /\ Cardinality({i \in SuccessIdx : sumInput[i].TTFT < v})
                   < Rank(p)
              /\ Cardinality({i \in SuccessIdx : sumInput[i].TTFT <= v})
                   >= Rank(p)
    IN (summarized /\ SuccessIdx # {}) =>
          /\ summary.P95TTFT = NearestRank(95)
          /\ summary.P99TTFT = NearestRank(99)

\* C18 (as stated): between two ClearProviders calls, the constructor of a
\* name is called at most once, and all successful GetProvider calls on the
\* name return one and the same instance.
C18_ConstructorRunsAtMostOnce ==
    \A n \in FactoryNames :
        /\ ctorRuns[n] <= 1
        /\ Cardinality(served[n]) <= 1

\* C18 (amended): between two ClearProviders calls, at most one constructor
\* call of a name builds an instance, however many calls run and fail, and
\* all successful GetProvider calls on the name return that one instance,
\* which is the one in the cache.
C18_AtMostOneInstancePerName ==
    \A n \in FactoryNames :
        /\ ctorOk[n] <= 1
        /\ Cardinality(served[n]) <= 1
        /\ served[n] # {} => served[n] = {fProviders[n]}

\* Two concurrent calls on one name both missed the cache under the read
\* lock; one built the instance and the other found it on its second look.
C18_Witness ==
    /\ gName[1] = gName[2]
    /\ {gRet[1].via, gRet[2].via} = {"built", "recheck"}
    /\ gRet[1].provider = gRet[2].provider
    /\ ctorOk[gName[1]] = 1

\* A call of caller c that went on to createProvider returns in this step
\* with an error.
ConstructionFails(c) ==
    /\ gPc[c] = "locked"
    /\ gPc'[c] = "done"
    /\ gRet'[c].err # "nil"

\* C19: a GetProvider call whose construction fails returns a
\* ConfigurationError and leaves the instance cache as it was, with nothing
\* cached under the name.
C19_FailedConstructionIsConfigurationError ==
    [][\A c \in Callers :
          ConstructionFails(c) =>
              /\ gRet'[c].err = "ConfigurationError"
              /\ fProviders' = fProviders
              /\ fProviders'[gName[c]] = 0]_vars

\* The name has a registered config its constructor accepts: a config of
\* the right type with an APIKey, in a process where the SDK client of the
\* name can be created.
ValidConfigFor(n) ==
    \/ n \in {"openai", "openai_responses"} /\ fConfigs["openai"] = "valid"
    \/ n = "gemini" /\ fConfigs["gemini"] = "valid" /\ ~genaiFails

\* C20: ClearProviders empties the instance cache and changes no registered
\* config; a GetProvider call that then has to construct, for a name with a
\* valid registered config, succeeds; and every instance returned since the
\* clear was built after it, so it is not the one cached before the clear.
C20_ClearDropsInstancesKeepsConfigs ==
    [][/\ clears' # clears =>
              /\ \A n \in FactoryNames : fProviders'[n] = 0
              /\ fConfigs' = fConfigs
       /\ \A c \in Callers :
              (gPc[c] = "locked" /\ gPc'[c] = "done"
                   /\ ValidConfigFor(gName[c])) => gRet'[c].err = "nil"
       /\ \A n \in FactoryNames : \A i \in served'[n] :
              /\ i > clearedUpTo'
              /\ i # preClear'[n]]_vars

\* An instance was cached under a name, ClearProviders ran, no config was
\* registered again, and a later call on the name built a new instance.
C20_Witness ==
    /\ clears = 1
    /\ registers = 1
    /\ \E c \in Callers :
           /\ gPc[c] = "done"
           /\ gRet[c].via = "built"
           /\ preClear[gName[c]] # 0
           /\ gRet[c].provider > preClear[gName[c]]
           /\ fProviders[gName[c]] = gRet[c].provider

\* The results the Runner holds, in order.
StoredResults == Contents(heap, stored)
IsPrefix(p, q) == Len(p) <= Len(q) /\ SubSeq(q, 1, Len(p)) = p

\* C21: in every step the stored results before it are a prefix of the
\* stored results after it; only addResult changes them, so GetResults,
\* GetSummary, and writes and appends to a returned slice leave them as
\* they were; they are always exactly the results added, in order.
C21_ResultsAppendOnly ==
    [][/\ IsPrefix(StoredResults, StoredResults')
       /\ addLog' = addLog => StoredResults' = StoredResults
       /\ StoredResults' = addLog']_vars

\* A caller holds a returned slice with a result in it, has written to it
\* so that it differs from the stored results, and a summary was taken.
C21_Witness ==
    /\ hasHeld
    /\ held.len >= 1
    /\ writes >= 1
    /\ summarized
    /\ Len(StoredResults) >= 1
    /\ Contents(heap, held)[1] # StoredResults[1]
    /\ StoredResults = addLog

\* The call returned a failed result.
CallFailed == cPc = "done" /\ ~cResult.Success

Validated == pOp = "validate" /\ pDone

Costed == pOp = "cost" /\ pDone

\* C24: the cost is in/1,000,000 * priceIn + out/1,000,000 * priceOut, that
\* is, a million times the cost is in * priceIn + out * priceOut; for
\* 1,000,000 and 500,000 tokens at 0.15 and 0.6 it is 0.45, and for no
\* tokens it is 0.
C24_CalculateCost ==
    Costed =>
        /\ FracMul(pOut.cost, Ratio(1000000, 1)) =
               FracAdd(FracMul(Ratio(pIn.inputTokens, 1), pIn.price.Input),
                       FracMul(Ratio(pIn.outputTokens, 1), pIn.price.Output))
        /\ (/\ pIn.inputTokens = 1000000 /\ pIn.outputTokens = 500000
            /\ pIn.price = [Input |-> Ratio(15, 100), Output |-> Ratio(60, 100)])
               => pOut.cost = Ratio(45, 100)
        /\ (pIn.inputTokens = 0 /\ pIn.outputTokens = 0)
               => pOut.cost = FloatZero

\* The example of the claim was computed.
C24_Witness ==
    /\ Costed
    /\ pIn.inputTokens = 1000000 /\ pIn.outputTokens = 500000
    /\ pIn.price = [Input |-> Ratio(15, 100), Output |-> Ratio(60, 100)]
    /\ pOut.cost = Frac(9, 20)

\* GetRetryDelay has returned.
Delayed == pOp = "delay" /\ pDone

\* C25: in every adapter and for every attempt >= 1, the delay is
\* min(attempt^2, 30) seconds plus attempt * 100 ms, whatever err is: between
\* 1 and 2 seconds for attempt 1, between 4 and 5 for attempt 2, between 30
\* and 31 for attempt 10.
C25_RetryDelay ==
    Delayed =>
        LET a == pIn.attempt
            square == IF a * a < 30 THEN a * a ELSE 30
        IN /\ pOut.delay = square * 1000 + a * 100
           /\ a = 1 => pOut.delay >= 1000 /\ pOut.delay <= 2000
           /\ a = 2 => pOut.delay >= 4000 /\ pOut.delay <= 5000
           /\ a = 10 => pOut.delay >= 30000 /\ pOut.delay <= 31000

\* GetTokenCount has returned.
Counted == pOp = "count" /\ pDone

\* C27: in every adapter GetTokenCount returns 0 for the empty text and,
\* for a non-empty text, the larger of 1 and its length divided by 4,
\* rounded down.
C27_TokenCount ==
    Counted =>
        /\ pIn.textLen = 0 => pOut.count = 0
        /\ pIn.textLen > 0 =>
               pOut.count = IF pIn.textLen \div 4 > 1 THEN pIn.textLen \div 4
                            ELSE 1

\* C26: with a prompts directory that can be read and holds no prompt file,
\* loading succeeds with 0 prompts, and Run returns nil with no result
\* recorded.
C26_EmptyPromptSetRunsClean ==
    (cfg.dir.files = 0 /\ ~cfg.dir.broken) =>
        /\ ~LoadPrompts(cfg.dir).err
        /\ mainPc = "returned" => runErr = "nil" /\ results = <<>>

\* C28: in concurrent mode, once the run context is cancelled no worker
\* takes a further work item from the queue and invokes StreamChat for it:
\* no StreamChat invocation is for an item its worker received with the run
\* context already done.
C28_NoWorkItemStartedAfterCancel ==
    [][\A t \in Threads \ {0} :
          (tPc[t] = "call" /\ tPc'[t] # "call") => ~ghost[t].takenLate]_vars

\* C29: no producer task is leaked.  After runSingleBenchmark has stopped
\* reading a call's stream because the per-call context was done, the
\* provider goroutine is never blocked in a send on responseChan: nothing
\* receives from the channel any more, so such a goroutine stays blocked
\* forever and never closes its stream.
C29_NoProducerLeaked ==
    ~(selPc = "returned" /\ selEnd = "timeout" /\ goPc \in Sending)

\* C30: every call's Metrics record is finalized exactly once.  A call that
\* has returned invoked exactly one of Complete and SetError, once, before
\* ToBenchmarkResult froze the record (with SetCost between Complete and
\* the freeze); the frozen result is the record as it still is, so nothing
\* mutated it after the freeze; a call that has not returned has finalized
\* nothing.
C30_FinalizedExactlyOnce ==
    /\ cPc # "done" => cCalls = <<>>
    /\ cPc = "done" =>
        /\ cCalls \in {<<"SetError", "ToBenchmarkResult">>,
                       <<"Complete", "SetCost", "ToBenchmarkResult">>}
        /\ (cCalls[1] = "Complete") = cMetrics.Success
        /\ cMetrics.EndTime # 0
        /\ cResult = ToTimedResult(cMetrics)

C30_Witness ==
    /\ cPc = "done"
    /\ cCalls = <<"Complete", "SetCost", "ToBenchmarkResult">>
    /\ firstTokenReceived
    /\ cCompleteSeen

\* C31: the first-token timestamp of a call is set at most once, at the
\* first stream event carrying non-empty text.  A step sets it exactly when it
\* handles the first non-empty delta, and then to the time of that event;
\* once set, no step changes it: not a later RecordFirstToken call, an empty
\* delta or a later non-empty one.
C31_FirstTokenRecordedOnce ==
    [][/\ cMetrics.FirstTokenTime # 0 =>
            cMetrics'.FirstTokenTime = cMetrics.FirstTokenTime
       /\ (cMetrics.FirstTokenTime = 0 /\ cMetrics'.FirstTokenTime # 0) <=>
            (cPc = "streaming" /\ fullResponse = 0 /\ fullResponse' > 0)
       /\ (cMetrics.FirstTokenTime = 0 /\ cMetrics'.FirstTokenTime # 0) =>
            cMetrics'.FirstTokenTime = now]_vars

\* The call has returned after a first token, a later non-empty delta and a
\* later RecordFirstToken call, with the clock advanced since the first
\* token.
C31_Witness ==
    /\ cPc = "done"
    /\ cRecords >= 2
    /\ fullResponse > 4
    /\ cResult.FirstTokenTime # 0
    /\ cResult.FirstTokenTime < cResult.EndTime

\* C32: for every successfully completed call, InputTokens is the
\* provider's estimate for the full input text and OutputTokens its
\* estimate for the full accumulated output text, each computed once,
\* whatever the shape of the stream: one completion event, several, or a
\* channel closed without one.
C32_TokensAreEstimatesOfFullTexts ==
    (cPc = "done" /\ cResult.Success) =>
        /\ cResult.InputTokens = GetTokenCount(cPromptLen)
        /\ cResult.OutputTokens = GetTokenCount(fullResponse)

\* C33: partially accumulated metrics of a cancelled call are discarded.
\* The failed result of a call that ended on its done context carries no
\* response text, no first-token timestamp and no token counts.
C33_CancelledCallDiscardsPartialMetrics ==
    (cPc = "done" /\ cEnd = "timeout") =>
        /\ cResult.Response = 0
        /\ cResult.FirstTokenTime = 0
        /\ cResult.InputTokens = 0
        /\ cResult.OutputTokens = 0

\* C34: the summary's total-time statistic is computed like the TTFT one.
\* Whenever at least one result is successful, AvgTotalTime is the mean
\* TotalTime of the successful results.
C34_AvgTotalTimeOverSuccessful ==
    (summarized /\ SuccessIdx # {}) =>
        summary.AvgTotalTime
          = SumField(SuccessIdx, "TotalTime") \div Cardinality(SuccessIdx)

\* C35: an event with a non-null error is always terminal.  The goroutine
\* emits nothing after its error event: when the send completes it returns
\* and closes the channel; the call that receives an error event returns in
\* that step and handles no event afterwards.
C35_ErrorEventIsTerminal ==
    [][/\ goPc = "send_error" => goPc' \in {"send_error", "return"}
       /\ (goPc = "send_error" /\ goPc' = "return") =>
            (selPc' = "returned" /\ selEnd' = "error_event")
       /\ selEnd = "error_event" =>
            /\ goPc \in {"return", "closed"}
            /\ goPc' \in {"return", "closed"}
            /\ received' = received
            /\ selPc' = "returned"]_vars

\* The call returned on an error event that followed a delta, and the
\* goroutine has closed the channel.
C35_Witness ==
    /\ selEnd = "error_event"
    /\ received >= 2
    /\ goPc = "closed"

\* The payload has been built.
Merged == pOp = "merge" /\ pDone

\* C36: in every adapter that merges ExtraParams into the payload, an extra
\* parameter overrides the computed default of its key, except that an entry
\* keyed "model", "stream" or "messages" neither changes the payload nor
\* adds to it.
C36_ExtraParamsOverrideExceptReserved ==
    Merged =>
        \A k \in PayloadKeys :
            pOut.payload[k] =
                IF k \in pIn.extraParams
                     /\ k \notin {"model", "stream", "messages"}
                THEN "extra"
                ELSE BasePayload(pAdapter, pIn.sampling)[k]

\* C37: a provider whose model list cannot be obtained (a name outside the
\* switch of ListModels) is skipped without affecting the others.  No result
\* is recorded and no call is made for it; at the end of a run that loaded
\* its prompts and was not cancelled every work item of the other providers
\* has its result; and a Run that returns then returns nil.
C37_UnlistedProviderIsSkipped ==
    LET skipped == cfg.providers \ {"openai"}
    IN skipped # {} =>
        /\ \A k \in 1..Len(results) : results[k].item.provider \notin skipped
        /\ \A t \in Threads : tItem[t].provider \notin skipped
        /\ (RunEnded /\ ~LoadPrompts(cfg.dir).err /\ ~cancelled) =>
              /\ \A i \in WorkItems(cfg) :
                    i.provider \notin skipped => ResultsFor(i) = 1
              /\ "openai" \in cfg.providers =>
                    \A f \in 1..cfg.dir.files, m \in cfg.models,
                       r \in 1..cfg.Runs :
                        \E k \in 1..Len(results) :
                            results[k].item = [prompt |-> f,
                                               provider |-> "openai",
                                               model |-> m, run |-> r]
              /\ mainPc = "returned" => runErr = "nil"

\* A sequential run over the providers "openai" and "custom" has returned
\* nil with the two results of "openai".
C37_Witness ==
    /\ cfg.providers = {"openai", "custom"}
    /\ cfg.Concurrent <= 1
    /\ mainPc = "returned" /\ runErr = "nil" /\ ~cancelled
    /\ Len(results) = 2

\* C38: in every result runSingleBenchmark returns, on whichever of its four
\* return paths, Success is true exactly when Error is nil.
C38_SuccessIffNoError ==
    cPc = "done" =>
        /\ cResult.Success <=> cResult.Error = "nil"
        /\ cResult.Success <=> cEnd = "closed"

\* A call that received content and then an error event returned a failed
\* result that carries the error.
C38_Witness ==
    /\ cPc = "done" /\ cEnd = "error_event"
    /\ fullResponse > 0
    /\ ~cResult.Success /\ cResult.Error = "ProviderError"

\* The main goroutine of a sequential run stands at one of the four checks
\* of runSequential: before a prompt, a provider, a model or a repetition,
\* with the previous call returned and appended.
AtSeqCheck ==
    /\ cfg.Concurrent <= 1 /\ Alive
    /\ \/ mainPc = "seq_prompt" /\ loop.p # NumPrompts(cfg)
       \/ mainPc = "seq_provider" /\ loop.provLeft # {}
       \/ mainPc = "seq_model" /\ loop.modelLeft # {}
       \/ mainPc = "seq_run" /\ tPc[0] = "off" /\ loop.run # cfg.Runs

C40_RegisterConfigLeavesCache ==
    [][/\ registers' # registers =>
              /\ fProviders' = fProviders
              /\ UNCHANGED <<fMutex, gPc, gName, gRet, nextInst, served>>
       /\ \A n \in FactoryNames :
              (fProviders[n] # 0 /\ fProviders'[n] # fProviders[n]) =>
                  clears' # clears
       /\ gets' # gets =>
              \E c \in Callers :
                  /\ \A d \in Callers \ {c} :
                         /\ gPc'[d] = gPc[d]
                         /\ gRet'[d] = gRet[d]
                         /\ gName'[d] = gName[d]
                  /\ IF fProviders[gName'[c]] # 0
                     THEN /\ gPc'[c] = "done"
                          /\ gRet'[c].provider = fProviders[gName'[c]]
                          /\ gRet'[c].err = "nil"
                     ELSE gPc'[c] = "missed"
       /\ \A c \in Callers :
              (gPc[c] = "locked" /\ gPc'[c] = "done"
                   /\ fProviders[gName[c]] # 0) =>
                  /\ gRet'[c].provider = fProviders[gName[c]]
                  /\ gRet'[c].err = "nil"]_vars

\* An instance was built, another config was registered under its name, and
\* with no ClearProviders in between a later GetProvider call on the name
\* returned that same instance, still the cached one.
C40_Witness ==
    /\ registers = 2 /\ clears = 0
    /\ \E c \in Callers :
           /\ gPc[c] = "done"
           /\ gRet[c].reRegistered
           /\ gRet[c].err = "nil"
           /\ gRet[c].provider # 0
           /\ gRet[c].provider = fProviders[gName[c]]
           /\ RegisteredFor(gName[c]) # "valid"
====
